---- MODULE Spec2Model ----
(***************************************************************************)
(* Reconciliation of a current (catalog) collection of database objects    *)
(* against a desired (specification) collection, as done by the diff_map   *)
(* and _drop methods of pyrseas.dbobject.{schema,language,dbtype,function, *)
(* foreign}, together with TypeDict.link_refs.                             *)
(*                                                                         *)
(* A keyed collection (a Python dict, iterated in insertion order) is a    *)
(* sequence of entity records with pairwise distinct keys.  A key is a     *)
(* tuple of strings; the plain-string key of a schema, language or wrapper *)
(* is the 1-tuple.  A missing attribute (hasattr false) is ABSENT, None is *)
(* NULL.  A statement list is a sequence of groups, each group the         *)
(* flattened sequence of the statements one append() contributed.          *)
(***************************************************************************)
EXTENDS Integers, Sequences, FiniteSets, TLC

VARIABLES
    kind,     \* class of the collection pair of this run
    version,  \* dbconn.version of the current database
    pc,       \* position of the run
    cur,      \* current collection (self), mutated by diff_map
    des,      \* desired collection (the diff_map argument)
    curf,     \* db.functions   (procedure collection of the current side)
    desf,     \* ndb.functions  (procedure collection of the desired side)
    cols,     \* db.columns: the attribute lists of the current side
    dcols,    \* ndb.columns: the attribute lists of the desired side
    stmts,    \* value returned by diff_map on cur/des
    drops,    \* value returned by _drop on cur
    fstmts,   \* value returned by ProcDict.diff_map on curf/desf
    fdrops,   \* value returned by ProcDict._drop on curf
    err,      \* exception that aborted the run, if any
    cur0,     \* history: cur as it was before diff_map
    curf0,    \* history: curf as it was before diff_map
    inobjs,   \* the specification map or catalog rows an ingestion consumes
    constrs,  \* db.constraints (constraint collection of the current side)
    tables,   \* db.tables     (table collection of the current side)
    langs,    \* names of the languages installed in the current database
    owned     \* collection owned by the run's: servers, user mappings, or
              \* the types and foreign tables of schemas

vars == <<kind, version, pc, cur, des, curf, desf, cols, dcols, stmts, drops,
          fstmts, fdrops, err, cur0, curf0, inobjs, constrs, tables, langs,
          owned>>

\* The collections and inputs the reconciliation itself never touches
aux == <<inobjs, constrs, tables, langs, owned>>

NULL == "NULL"
ABSENT == "ABSENT"
\* A missing attribute whose values are tuples or lists: the attribute is
\* None when missing and Some(v) when it holds v
None == <<>>
Some(v) == <<v>>

\* Largest number of entities in one collection
MaxObjs == 2

-----------------------------------------------------------------------------
(* Keyed collections *)

RECURSIVE Fold(_, _, _)
Fold(Op(_, _), acc, s) ==
    IF s = <<>> THEN acc ELSE Fold(Op, Op(acc, Head(s)), Tail(s))

\* The subsequences of a sequence
SubSeqsOf(seq) ==
    {LET kept == SelectSeq([i \in 1..Len(seq) |-> <<i, seq[i]>>],
                           LAMBDA pr : pr[1] \in M)
     IN  [j \in 1..Len(kept) |-> kept[j][2]] : M \in SUBSET (1..Len(seq))}

Has(c, k) == \E i \in 1..Len(c) : c[i].key = k
Get(c, k) == c[CHOOSE i \in 1..Len(c) : c[i].key = k]
Del(c, k) == SelectSeq(c, LAMBDA e : e.key # k)
KeySet(c) == {c[i].key : i \in 1..Len(c)}
Prefix(k) == SubSeq(k, 1, Len(k) - 1)

RECURSIVE Flatten(_)
Flatten(groups) ==
    IF groups = <<>> THEN <<>> ELSE Head(groups) \o Flatten(Tail(groups))

-----------------------------------------------------------------------------
(* Exceptions *)

NoErr == [exc |-> "none", names |-> {}]
\* KeyError whose message was rewritten to name the old and the new name
KeyErrorNames(old, new) == [exc |-> "KeyError", names |-> {old, new}]
\* KeyError as raised by a failed dict lookup: it reports the missing key
KeyErrorKey(k) == [exc |-> "KeyError", names |-> {k[i] : i \in 1..Len(k)}]

\* AttributeError of reading an attribute the object does not have
AttributeError(attr) == [exc |-> "AttributeError", names |-> {attr}]

Raised(acc) == acc.err.exc # "none"
Raise(acc, e) == [acc EXCEPT !.err = e]
Emit(acc, group) == [acc EXCEPT !.out = Append(@, group)]
\* stmts.append(call) of a call that returned r.out or raised r.err
EmitCall(acc, r) == IF Raised(r) THEN Raise(acc, r.err) ELSE Emit(acc, r.out)
\* A call that returned the statements out
Returned(out) == [out |-> out, err |-> NoErr]

-----------------------------------------------------------------------------
(* Statements *)

Stmt(op, e, val) ==
    [op |-> op, cls |-> e.cls, obj |-> e.key, val |-> val, clauses |-> <<>>]

\* DbObject.rename / drop / alter_owner / comment.  DbObject.drop is the drop
\* of the kinds that are no schema objects (schemas, languages, wrappers,
\* servers, user mappings): the statement, whatever the marker.
Rename(e, newname) == Stmt("rename", e, newname)
DbObject_drop(e) == Stmt("drop", e, "")
\* DbSchemaObject.drop, inherited by procedures and types: it returns the
\* statement and sets dropped = True unless the marker is already true, and
\* the empty list after that.  obj is the entity after the call.
DbSchemaObject_drop(self) ==
    IF self.dropped # "True"
    THEN [obj |-> [self EXCEPT !.dropped = "True"],
          out |-> <<DbObject_drop(self)>>]
    ELSE [obj |-> self, out |-> <<>>]
\* stmts.append(self[key].drop()) on entity i of the collection acc.cur
DropAt(acc, i) ==
    LET r == DbSchemaObject_drop(acc.cur[i])
    IN  [cur |-> [acc.cur EXCEPT ![i] = r.obj],
         out |-> Append(acc.out, r.out)]
AlterOwner(e, owner) == Stmt("owner", e, owner)
Comment(e, descr) == Stmt("comment", e, descr)

\* The decorators @ownable and @commentable around a create method
Ownable(e, group) ==
    IF e.owner # NULL THEN Append(group, AlterOwner(e, e.owner)) ELSE group
Commentable(e, group) ==
    IF e.description # NULL
    THEN Append(group, Comment(e, e.description)) ELSE group

DiffDescription(self, inobj) ==
    IF inobj.description = self.description THEN <<>>
    ELSE <<Comment(self, inobj.description)>>

\* DbObject.diff_map: owner and description changes
DbObject_diff_map(self, inobj) ==
    (IF inobj.owner # NULL /\ inobj.owner # self.owner
     THEN <<AlterOwner(self, inobj.owner)>> ELSE <<>>)
    \o DiffDescription(self, inobj)

\* Mark the entities of c that satisfy P with dropped = val
Mark(c, P(_), val) ==
    [i \in 1..Len(c) |->
        IF P(c[i]) THEN [c[i] EXCEPT !.dropped = val] ELSE c[i]]

\* The _drop loop of schemas, languages, wrappers and servers: one
\* DbObject.drop per marked entity
DropMarked(c, P(_)) ==
    LET Step(out, e) ==
            IF e.dropped # ABSENT /\ P(e)
            THEN Append(out, <<DbObject_drop(e)>>)
            ELSE out
    IN  Fold(Step, <<>>, c)

-----------------------------------------------------------------------------
(* schema.py *)

Schema_create(self) ==
    Commentable(self, Ownable(self, <<Stmt("create", self, "")>>))

\* SchemaDict.diff_map that marks every schema missing from the input
SchemaDict_diff_map_markall(self, inschemas) ==
    LET Step(acc, insch) ==
            IF Raised(acc) THEN acc
            ELSE IF Has(acc.cur, insch.key)
            THEN Emit(acc, DbObject_diff_map(Get(acc.cur, insch.key), insch))
            ELSE IF insch.oldname # ABSENT
            THEN IF Has(acc.cur, <<insch.oldname>>)
                 THEN [acc EXCEPT
                        !.out = Append(@, <<Rename(
                            Get(acc.cur, <<insch.oldname>>), insch.name)>>),
                        !.cur = Del(@, <<insch.oldname>>)]
                 ELSE Raise(acc, KeyErrorNames(insch.oldname, insch.name))
            ELSE IF insch.name \notin {"pg_catalog"}
            THEN Emit(acc, Schema_create(insch))
            ELSE acc
        r == Fold(Step, [cur |-> self, out |-> <<>>, err |-> NoErr],
                  inschemas)
    IN  IF Raised(r) THEN r
        ELSE [r EXCEPT !.cur = Mark(@,
                LAMBDA e : ~Has(inschemas, e.key), "True")]

SchemaDict_diff_map(self, inschemas) ==
    LET Step(acc, insch) ==
            IF Raised(acc) THEN acc
            ELSE IF Has(acc.cur, insch.key)
            THEN Emit(acc, DbObject_diff_map(Get(acc.cur, insch.key), insch))
            ELSE IF insch.oldname # ABSENT
            THEN IF Has(acc.cur, <<insch.oldname>>)
                 THEN [acc EXCEPT
                        !.out = Append(@, <<Rename(
                            Get(acc.cur, <<insch.oldname>>), insch.name)>>),
                        !.cur = Del(@, <<insch.oldname>>)]
                 ELSE Raise(acc, KeyErrorNames(insch.oldname, insch.name))
            ELSE IF insch.name \notin {"pg_catalog"}
            THEN Emit(acc, Schema_create(insch))
            ELSE acc
        r == Fold(Step, [cur |-> self, out |-> <<>>, err |-> NoErr],
                  inschemas)
    IN  IF Raised(r) THEN r
        ELSE [r EXCEPT !.cur = Mark(@,
                LAMBDA e : e.name \notin {"public", "pg_catalog"}
                           /\ ~Has(inschemas, e.key), "True")]

SchemaDict_drop(self) ==
    DropMarked(self, LAMBDA e : e.name # "public")

-----------------------------------------------------------------------------
(* language.py *)

Language_create(self) ==
    IF self.ext = ABSENT
    THEN <<Stmt("create", self, "")>>
         \o (IF self.owner # NULL
             THEN <<AlterOwner(self, self.owner)>> ELSE <<>>)
         \o (IF self.description # NULL
             THEN <<Comment(self, self.description)>> ELSE <<>>)
    ELSE <<>>

LanguageDict_diff_map(self, inlanguages, dbversion) ==
    LET Step(acc, inlng) ==
            IF Raised(acc) THEN acc
            ELSE IF Has(acc.cur, inlng.key)
            THEN IF inlng.ext = ABSENT
                 THEN Emit(acc, DbObject_diff_map(Get(acc.cur, inlng.key),
                                                  inlng))
                 ELSE acc
            ELSE IF inlng.oldname # ABSENT
            THEN IF Has(acc.cur, <<inlng.oldname>>)
                 THEN [acc EXCEPT
                        !.out = Append(@, <<Rename(
                            Get(acc.cur, <<inlng.oldname>>), inlng.name)>>),
                        !.cur = Del(@, <<inlng.oldname>>)]
                 ELSE Raise(acc, KeyErrorNames(inlng.oldname, inlng.name))
            ELSE Emit(acc, Language_create(inlng))
        r == Fold(Step, [cur |-> self, out |-> <<>>, err |-> NoErr],
                  inlanguages)
    IN  IF Raised(r) THEN r
        ELSE [r EXCEPT !.cur = Mark(@,
                LAMBDA e : ~Has(inlanguages, e.key)
                           /\ ~(dbversion >= 90000 /\ e.name = "plpgsql"),
                "True")]

LanguageDict_drop(self) ==
    DropMarked(self, LAMBDA e : TRUE)

-----------------------------------------------------------------------------
(* foreign.py *)

\* An option 'key=value' is the pair <<key, value>> that split('=', 1) gives.
\* to_dict: the dict built from a list of pairs (a later pair of the same
\* key replaces the value and keeps the position of the first)
to_dict(optlist) ==
    LET Step(d, opt) ==
            IF \E i \in 1..Len(d) : d[i][1] = opt[1]
            THEN [i \in 1..Len(d) |->
                    IF d[i][1] = opt[1] THEN opt ELSE d[i]]
            ELSE Append(d, opt)
    IN  Fold(Step, <<>>, optlist)

OptHas(d, k) == \E i \in 1..Len(d) : d[i][1] = k
OptVal(d, k) == d[CHOOSE i \in 1..Len(d) : d[i][1] = k][2]

\* diff_options without the clause for a changed value
diff_options_unchanged(self, newoptlist) ==
    LET oldopts == IF self.options # None THEN to_dict(self.options[1])
                   ELSE <<>>
        newopts == to_dict(newoptlist)
        StepNew(cl, opt) ==
            IF ~OptHas(oldopts, opt[1])
            THEN Append(cl, [act |-> "", key |-> opt[1], val |-> opt[2]])
            ELSE cl
        StepOld(cl, opt) ==
            IF ~OptHas(newopts, opt[1])
            THEN Append(cl, [act |-> "DROP", key |-> opt[1], val |-> ""])
            ELSE cl
    IN  Fold(StepOld, Fold(StepNew, <<>>, newopts), oldopts)

\* The clauses collected by diff_options; '' is the empty sequence.  The
\* clause of a new key is written without a keyword ("key 'value'").
diff_options(self, newoptlist) ==
    LET oldopts == IF self.options # None THEN to_dict(self.options[1])
                   ELSE <<>>
        newopts == to_dict(newoptlist)
        StepNew(cl, opt) ==
            IF ~OptHas(oldopts, opt[1])
            THEN Append(cl, [act |-> "", key |-> opt[1], val |-> opt[2]])
            ELSE IF opt[2] # OptVal(oldopts, opt[1])
            THEN Append(cl, [act |-> "SET", key |-> opt[1], val |-> opt[2]])
            ELSE cl
        StepOld(cl, opt) ==
            IF ~OptHas(newopts, opt[1])
            THEN Append(cl, [act |-> "DROP", key |-> opt[1], val |-> ""])
            ELSE cl
    IN  Fold(StepOld, Fold(StepNew, <<>>, newopts), oldopts)

DbObjectWithOptions_diff_map(self, inobj) ==
    LET newopts == IF inobj.options # None THEN inobj.options[1] ELSE <<>>
        diff_opts == diff_options(self, newopts)
    IN  DbObject_diff_map(self, inobj)
        \o (IF diff_opts # <<>>
            THEN <<[Stmt("alter", self, "OPTIONS") EXCEPT
                        !.clauses = diff_opts]>>
            ELSE <<>>)

\* The diff_map of a foreign object comparing the owners without the test
\* for a null desired owner
ForeignObject_diff_map_nullowner(self, inobj) ==
    DbObjectWithOptions_diff_map(self, inobj)
    \o (IF inobj.owner # self.owner
        THEN <<AlterOwner(self, inobj.owner)>> ELSE <<>>)
    \o DiffDescription(self, inobj)

\* ForeignDataWrapper.diff_map, ForeignServer.diff_map, ForeignTable.diff_map
ForeignObject_diff_map(self, inobj) ==
    DbObjectWithOptions_diff_map(self, inobj)
    \o (IF inobj.owner # NULL /\ inobj.owner # self.owner
        THEN <<AlterOwner(self, inobj.owner)>> ELSE <<>>)
    \o DiffDescription(self, inobj)

\* ForeignDataWrapper.create under @commentable @grantable @ownable
ForeignDataWrapper_create(self) ==
    Commentable(self, Ownable(self, <<Stmt("create", self, "")>>))

\* ForeignServer.create under @commentable @grantable @ownable
ForeignServer_create(self) ==
    Commentable(self, Ownable(self, <<Stmt("create", self, "")>>))

UserMapping_create(self) == <<Stmt("create", self, "")>>

ForeignTable_create(self) ==
    <<Stmt("create", self, "")>>
    \o (IF self.owner # NULL THEN <<AlterOwner(self, self.owner)>> ELSE <<>>)
    \o (IF self.description # NULL
        THEN <<Comment(self, self.description)>> ELSE <<>>)

ForeignDataWrapperDict_diff_map(self, inwrappers) ==
    LET Step(acc, infdw) ==
            IF Raised(acc) THEN acc
            ELSE IF Has(acc.cur, infdw.key)
            THEN Emit(acc, ForeignObject_diff_map(Get(acc.cur, infdw.key),
                                                  infdw))
            ELSE IF infdw.oldname # ABSENT
            THEN IF Has(acc.cur, <<infdw.oldname>>)
                 THEN [acc EXCEPT
                        !.out = Append(@, <<Rename(
                            Get(acc.cur, <<infdw.oldname>>), infdw.name)>>),
                        !.cur = Del(@, <<infdw.oldname>>)]
                 ELSE Raise(acc, KeyErrorNames(infdw.oldname, infdw.name))
            ELSE Emit(acc, ForeignDataWrapper_create(infdw))
        r == Fold(Step, [cur |-> self, out |-> <<>>, err |-> NoErr],
                  inwrappers)
    IN  IF Raised(r) THEN r
        ELSE [r EXCEPT !.cur = Mark(@, LAMBDA e : ~Has(inwrappers, e.key),
                                    "True")]

ForeignDataWrapperDict_drop(self) ==
    DropMarked(self, LAMBDA e : TRUE)

\* The rename branch looks the server up under (fdw, oldname) and then
\* deletes the key oldname, a plain string, which is never a key of the
\* collection: the del raises KeyError inside the try block.
ForeignServerDict_diff_map(self, inservers) ==
    LET Step(acc, insrv) ==
            IF Raised(acc) THEN acc
            ELSE IF Has(acc.cur, insrv.key)
            THEN Emit(acc, ForeignObject_diff_map(Get(acc.cur, insrv.key),
                                                  insrv))
            ELSE IF insrv.oldname # ABSENT
            THEN IF Has(acc.cur, <<insrv.key[1], insrv.oldname>>)
                    /\ Has(acc.cur, <<insrv.oldname>>)
                 THEN [acc EXCEPT
                        !.out = Append(@, <<Rename(
                            Get(acc.cur, <<insrv.key[1], insrv.oldname>>),
                            insrv.name)>>),
                        !.cur = Del(@, <<insrv.oldname>>)]
                 ELSE Raise(acc, KeyErrorNames(insrv.oldname, insrv.name))
            ELSE Emit(acc, ForeignServer_create(insrv))
        r == Fold(Step, [cur |-> self, out |-> <<>>, err |-> NoErr],
                  inservers)
    IN  IF Raised(r) THEN r
        ELSE [r EXCEPT !.cur = Mark(@, LAMBDA e : ~Has(inservers, e.key),
                                    "True")]

ForeignServerDict_drop(self) ==
    DropMarked(self, LAMBDA e : TRUE)

\* The second loop appends the drop statements to the returned list
UserMappingDict_diff_map(self, inusermaps) ==
    LET Step(acc, inump) ==
            IF Raised(acc) THEN acc
            ELSE IF Has(acc.cur, inump.key)
            THEN Emit(acc, DbObjectWithOptions_diff_map(
                                Get(acc.cur, inump.key), inump))
            ELSE IF inump.oldname # ABSENT
            THEN IF Has(acc.cur, Prefix(inump.key) \o <<inump.oldname>>)
                 THEN [acc EXCEPT
                        !.out = Append(@, <<Rename(
                            Get(acc.cur,
                                Prefix(inump.key) \o <<inump.oldname>>),
                            inump.name)>>),
                        !.cur = Del(@, Prefix(inump.key)
                                       \o <<inump.oldname>>)]
                 ELSE Raise(acc, KeyErrorNames(inump.oldname, inump.name))
            ELSE Emit(acc, UserMapping_create(inump))
        r == Fold(Step, [cur |-> self, out |-> <<>>, err |-> NoErr],
                  inusermaps)
        DropStep(out, e) ==
            IF ~Has(inusermaps, e.key)
            THEN Append(out, <<DbObject_drop(e)>>)
            ELSE out
    IN  IF Raised(r) THEN r
        ELSE [r EXCEPT !.out = Fold(DropStep, @, r.cur)]

\* ForeignTable.drop overrides the drop of a schema object: the statement,
\* whatever the marker
ForeignTable_drop(self) == Stmt("drop", self, "")

ForeignTableDict_diff_map(self, intables) ==
    LET Step(acc, intbl) ==
            IF Raised(acc) THEN acc
            ELSE IF ~Has(acc.cur, intbl.key)
            THEN IF intbl.oldname # ABSENT
                 THEN IF Has(acc.cur, Prefix(intbl.key) \o <<intbl.oldname>>)
                      THEN [acc EXCEPT
                             !.out = Append(@, <<Rename(
                                 Get(acc.cur,
                                     Prefix(intbl.key) \o <<intbl.oldname>>),
                                 intbl.name)>>),
                             !.cur = Del(@, Prefix(intbl.key)
                                            \o <<intbl.oldname>>)]
                      ELSE Raise(acc, KeyErrorNames(intbl.oldname,
                                                    intbl.name))
                 ELSE Emit(acc, ForeignTable_create(intbl))
            ELSE acc
        r == Fold(Step, [cur |-> self, out |-> <<>>, err |-> NoErr],
                  intables)
        Step2(out, table) ==
            IF ~Has(intables, table.key)
            THEN Append(out, <<ForeignTable_drop(table)>>)
            ELSE Append(out, ForeignObject_diff_map(
                                table, Get(intables, table.key)))
    IN  IF Raised(r) THEN r
        ELSE [r EXCEPT !.out = Fold(Step2, @, r.cur)]

-----------------------------------------------------------------------------
(* function.py *)

Truthy(v) == v \notin {NULL, ABSENT, ""}

\* Table.create of the table a function depends on
Table_create(tblkey) ==
    <<Stmt("create", [cls |-> "Table", key |-> tblkey], "")>>

\* The COST and ROWS clauses of Function.create; cost and rows are None when
\* the attribute is missing
CostClause(self) ==
    IF self.cost # None /\ self.cost[1] # 0
    THEN IF self.language \in {"c", "internal"}
         THEN IF self.cost[1] # 1
              THEN <<[name |-> "COST", val |-> self.cost[1]]>> ELSE <<>>
         ELSE IF self.cost[1] # 100
              THEN <<[name |-> "COST", val |-> self.cost[1]]>> ELSE <<>>
    ELSE <<>>
RowsClause(self) ==
    IF self.rows # None /\ self.rows[1] # 0 /\ self.rows[1] # 1000
    THEN <<[name |-> "ROWS", val |-> self.rows[1]]>> ELSE <<>>

\* Function.create(newsrc, basetype) under @commentable @grantable @ownable:
\* the statements it returns, or the AttributeError of reading self.source
\* (when newsrc is empty) or self.returns on a function that lacks it
Function_create(self, newsrc, basetype) ==
    IF self.dep_type # None /\ ~basetype
    THEN Returned(Commentable(self, Ownable(self, <<>>)))
    ELSE IF ~Truthy(newsrc) /\ self.source = ABSENT
    THEN [out |-> <<>>, err |-> AttributeError("source")]
    ELSE IF self.returns = None
    THEN [out |-> <<>>, err |-> AttributeError("returns")]
    ELSE Returned(Commentable(self, Ownable(self,
            (IF self.dependent_table # None
             THEN Table_create(self.dependent_table[1]) ELSE <<>>)
            \o <<[Stmt("create", self,
                       IF Truthy(newsrc) THEN "OR REPLACE" ELSE "")
                   EXCEPT !.clauses =
                            CostClause(self) \o RowsClause(self)]>>)))

\* DbObject._base_map of a function: the attributes past the key, of which
\* the model keeps language, source, cost and rows
Function_base_map(self) ==
    <<(<<"language", self.language>>)>>
    \o (IF self.source # ABSENT THEN <<(<<"source", self.source>>)>> ELSE <<>>)
    \o (IF self.cost # None THEN <<(<<"cost", self.cost[1]>>)>> ELSE <<>>)
    \o (IF self.rows # None THEN <<(<<"rows", self.rows[1]>>)>> ELSE <<>>)

\* Function.to_map deleting cost and rows whenever Function.create writes no
\* clause for them
Function_to_map_as_create(self) ==
    SelectSeq(Function_base_map(self),
              LAMBDA pr : /\ pr[1] = "cost" => CostClause(self) # <<>>
                          /\ pr[1] = "rows" => RowsClause(self) # <<>>)

\* Function.to_map: del dct['cost'] and del dct['rows']
Function_to_map(self) ==
    LET delcost == /\ self.cost # None /\ self.cost[1] # 0
                   /\ IF self.language \in {"c", "internal"}
                      THEN self.cost[1] = 1 ELSE self.cost[1] = 100
        delrows == self.rows # None /\ self.rows[1] # 0 /\ self.rows[1] = 1000
    IN  SelectSeq(Function_base_map(self),
                  LAMBDA pr : /\ pr[1] = "cost" => ~delcost
                              /\ pr[1] = "rows" => ~delrows)

Aggregate_create(self) ==
    Commentable(self, Ownable(self, <<Stmt("create", self, "")>>))

\* The statement Function.diff_map appends for the leakproof attribute; the
\* booleans True and False are "True" and "False"
LeakproofDiff(self, infunction) ==
    IF self.leakproof = "True"
    THEN IF infunction.leakproof = "True"
         THEN <<Stmt("alter", self, "LEAKPROOF")>>
         ELSE <<Stmt("alter", self, "NOT LEAKPROOF")>>
    ELSE IF infunction.leakproof = "True"
    THEN <<Stmt("alter", self, "LEAKPROOF")>>
    ELSE <<>>

\* The list self.create(infunction.source) that Function.diff_map appends
\* first when both sources exist and differ
SourceDiff(self, infunction) ==
    IF self.source # ABSENT /\ infunction.source # ABSENT
       /\ self.source # infunction.source
    THEN Function_create(self, infunction.source, FALSE)
    ELSE Returned(<<>>)

\* Function.diff_map: the statements, or the error self.create raised
Function_diff_map(self, infunction) ==
    LET src == SourceDiff(self, infunction)
    IN  IF Raised(src) THEN src
        ELSE Returned(
                src.out
                \o (IF infunction.owner # NULL
                       /\ infunction.owner # self.owner
                    THEN <<AlterOwner(self, infunction.owner)>> ELSE <<>>)
                \o LeakproofDiff(self, infunction)
                \o DiffDescription(self, infunction))

\* The scan of diff_stmts in ProcDict.diff_map: a statement, or the first
\* element of a nested list, that is a string starting with "CREATE ".  The
\* list self.create returned starts with the nested list of Table.create
\* when the function has a dependent table, and that is no string.
StartsWithCreate(self, infunction) ==
    LET src == SourceDiff(self, infunction).out
    IN  /\ self.cls = "Function" /\ src # <<>>
        /\ self.dependent_table = None
        /\ src[1].op = "create"

\* self[key].diff_map(infunc): Function overrides it, Aggregate inherits it
Proc_diff_map(self, infunc) ==
    IF self.cls = "Function" THEN Function_diff_map(self, infunc)
    ELSE Returned(DbObject_diff_map(self, infunc))

\* infunc.create() of a specification procedure
Proc_create(infunc) ==
    IF infunc.cls = "Function" THEN Function_create(infunc, NULL, FALSE)
    ELSE Returned(Aggregate_create(infunc))

\* acc.created is the local flag of ProcDict.diff_map
ProcDict_diff_map(self, infuncs) ==
    LET StepF(acc, infunc) ==
            IF Raised(acc) \/ infunc.cls = "Aggregate" THEN acc
            ELSE IF ~Has(acc.cur, infunc.key)
            THEN IF infunc.oldname = ABSENT
                 THEN [EmitCall(acc, Proc_create(infunc))
                        EXCEPT !.created = TRUE]
                 ELSE Raise(acc, KeyErrorKey(infunc.key))
            ELSE [EmitCall(acc, Proc_diff_map(Get(acc.cur, infunc.key),
                                              infunc))
                    EXCEPT !.created = @ \/ StartsWithCreate(
                                Get(acc.cur, infunc.key), infunc)]
        StepA(acc, infunc) ==
            IF Raised(acc) \/ infunc.cls # "Aggregate" THEN acc
            ELSE IF ~Has(acc.cur, infunc.key)
            THEN IF infunc.oldname = ABSENT
                 THEN EmitCall(acc, Proc_create(infunc))
                 ELSE Raise(acc, KeyErrorKey(infunc.key))
            ELSE EmitCall(acc, Proc_diff_map(Get(acc.cur, infunc.key),
                                             infunc))
        r == Fold(StepA,
                  Fold(StepF, [cur |-> self, out |-> <<>>, err |-> NoErr,
                               created |-> FALSE], infuncs),
                  infuncs)
        SetStmt == [op |-> "set", cls |-> "", obj |-> <<>>,
                    val |-> "check_function_bodies = false",
                    clauses |-> <<>>]
    IN  IF Raised(r) THEN [cur |-> r.cur, out |-> r.out, err |-> r.err]
        ELSE [cur |-> Mark(r.cur, LAMBDA e : ~Has(infuncs, e.key), "False"),
              out |-> IF r.created THEN <<(<<SetStmt>>)>> \o r.out
                      ELSE r.out,
              err |-> NoErr]

\* The sequence 1..Len(c)
Indexes(c) == [i \in 1..Len(c) |-> i]

\* ProcDict._drop without the _dep_type test of its second loop
ProcDict_drop_nodeptest(self) ==
    LET Step1(acc, i) ==
            IF acc.cur[i].cls = "Aggregate" /\ acc.cur[i].dropped # ABSENT
            THEN DropAt(acc, i) ELSE acc
        Step2(acc, i) ==
            IF acc.cur[i].dropped # ABSENT THEN DropAt(acc, i) ELSE acc
    IN  Fold(Step2, Fold(Step1, [cur |-> self, out |-> <<>>], Indexes(self)),
             Indexes(self))

\* ProcDict._drop calling a drop() that does not test the marker
ProcDict_drop_untested(self) ==
    LET Untested(acc, i) ==
            [cur |-> [acc.cur EXCEPT ![i].dropped = "True"],
             out |-> Append(acc.out, <<DbObject_drop(acc.cur[i])>>)]
        Step1(acc, i) ==
            IF acc.cur[i].cls = "Aggregate" /\ acc.cur[i].dropped # ABSENT
            THEN Untested(acc, i) ELSE acc
        Step2(acc, i) ==
            IF acc.cur[i].dropped # ABSENT /\ acc.cur[i].dep_type = None
            THEN Untested(acc, i) ELSE acc
    IN  Fold(Step2, Fold(Step1, [cur |-> self, out |-> <<>>], Indexes(self)),
             Indexes(self))

\* ProcDict._drop with its two loops in the other order
ProcDict_drop_aggregates_last(self) ==
    LET Step1(acc, i) ==
            IF acc.cur[i].cls = "Aggregate" /\ acc.cur[i].dropped # ABSENT
            THEN DropAt(acc, i) ELSE acc
        Step2(acc, i) ==
            IF acc.cur[i].dropped # ABSENT /\ acc.cur[i].dep_type = None
            THEN DropAt(acc, i) ELSE acc
    IN  Fold(Step1, Fold(Step2, [cur |-> self, out |-> <<>>], Indexes(self)),
             Indexes(self))

\* ProcDict._drop: the marked aggregates, then every marked procedure that
\* is no support procedure of a base type.  The second loop calls drop() on
\* the aggregates again and appends the empty list it returns.  cur is the
\* collection after the call.
ProcDict_drop(self) ==
    LET Step1(acc, i) ==
            IF acc.cur[i].cls = "Aggregate" /\ acc.cur[i].dropped # ABSENT
            THEN DropAt(acc, i) ELSE acc
        Step2(acc, i) ==
            IF acc.cur[i].dropped # ABSENT /\ acc.cur[i].dep_type = None
            THEN DropAt(acc, i) ELSE acc
    IN  Fold(Step2, Fold(Step1, [cur |-> self, out |-> <<>>], Indexes(self)),
             Indexes(self))

-----------------------------------------------------------------------------
(* dbtype.py *)

OPT_FUNCS == <<"receive", "send", "typmod_in", "typmod_out", "analyze">>

\* DbSchemaObject.qualname: the name, schema-qualified outside 'public'
QualName(sch, name) == IF sch = "public" THEN name ELSE sch \o "." \o name

\* split_schema_obj: a reference is <<name>> or <<schema, name>>, the parts
\* around the dot of the written string
split_schema_obj(ref, sch) ==
    IF Len(ref) = 2 THEN <<ref[1], ref[2]>>
    ELSE <<IF sch = NULL THEN "public" ELSE sch, ref[1]>>

\* dep_funcs, a dict in insertion order: a sequence of <<role, function key>>
DepHas(dep, role) == \E i \in 1..Len(dep) : dep[i][1] = role
DepGet(dep, role) == dep[CHOOSE i \in 1..Len(dep) : dep[i][1] = role][2]
DepUpdate(dep, role, fkey) ==
    IF DepHas(dep, role)
    THEN [i \in 1..Len(dep) |->
            IF dep[i][1] = role THEN <<role, fkey>> ELSE dep[i]]
    ELSE Append(dep, <<role, fkey>>)

\* The signatures with those of receive and typmod_in exchanged
RoleArgs_swapped(role, dbtype, sch, fnc, dbfuncs) ==
    CASE role = "input" ->
            IF Has(dbfuncs, <<sch, fnc, "cstring">>) THEN "cstring"
            ELSE "cstring, oid, integer"
      [] role = "output" -> QualName(dbtype.key[1], dbtype.name)
      [] role = "receive" -> "cstring[]"
      [] role = "send" -> QualName(dbtype.key[1], dbtype.name)
      [] role = "typmod_in" -> "internal"
      [] role = "typmod_out" -> "integer"
      [] role = "analyze" -> "internal"

\* The argument signature under which link_refs looks a role's procedure up
RoleArgs(role, dbtype, sch, fnc, dbfuncs) ==
    CASE role = "input" ->
            IF Has(dbfuncs, <<sch, fnc, "cstring">>) THEN "cstring"
            ELSE "cstring, oid, integer"
      [] role = "output" -> QualName(dbtype.key[1], dbtype.name)
      [] role = "receive" -> "internal"
      [] role = "send" -> QualName(dbtype.key[1], dbtype.name)
      [] role = "typmod_in" -> "cstring[]"
      [] role = "typmod_out" -> "integer"
      [] role = "analyze" -> "internal"

\* One base type of the third loop of TypeDict.link_refs.  acc.sch is the
\* variable sch, rebound by every split_schema_obj call.
LinkBaseType(types, dbfuncs, key) ==
    LET dbtype == Get(types, key)
        Step(acc, role) ==
            IF Raised(acc) THEN acc
            ELSE IF role \notin {"input", "output"}
                    /\ dbtype.refs[role] = None
            THEN acc
            ELSE LET sf == split_schema_obj(dbtype.refs[role][1], acc.sch)
                     arg == RoleArgs(role, dbtype, sf[1], sf[2], acc.funcs)
                     fkey == <<sf[1], sf[2], arg>>
                 IN  IF ~Has(acc.funcs, fkey)
                     THEN [acc EXCEPT !.err = KeyErrorKey(fkey),
                                      !.sch = sf[1]]
                     ELSE [acc EXCEPT
                            !.sch = sf[1],
                            !.dep = DepUpdate(@, role, fkey),
                            !.funcs = [i \in 1..Len(@) |->
                                IF @[i].key = fkey
                                THEN [@[i] EXCEPT !.dep_type = Some(key)]
                                ELSE @[i]]]
        r == Fold(Step,
                  [sch |-> key[1],
                   dep |-> IF dbtype.dep_funcs = None THEN <<>>
                           ELSE dbtype.dep_funcs[1],
                   funcs |-> dbfuncs, err |-> NoErr],
                  <<"input", "output">> \o OPT_FUNCS)
    IN  [types |-> [i \in 1..Len(types) |->
                        IF types[i].key = key
                        THEN [types[i] EXCEPT !.dep_funcs = Some(r.dep)]
                        ELSE types[i]],
         funcs |-> r.funcs, err |-> r.err]

\* TypeDict.link_refs(dbcolumns, dbconstrs, dbfuncs).  dbcolumns maps a
\* type key to its attribute list, dbconstrs holds the constraints.
TypeDict_link_refs(self, dbcolumns, dbconstrs, dbfuncs) ==
    LET ColStep(acc, col) ==
            IF Raised(acc) \/ ~Has(acc.types, col.key) THEN acc
            ELSE IF Get(acc.types, col.key).cls # "Composite"
            THEN Raise(acc, [exc |-> "AssertionError", names |-> {}])
            ELSE [acc EXCEPT !.types = [i \in 1..Len(@) |->
                    IF @[i].key = col.key
                    THEN [@[i] EXCEPT !.attributes = Some(col.attrs)]
                    ELSE @[i]]]
        CnsStep(acc, constr) ==
            IF Raised(acc) \/ constr.target # "d" THEN acc
            ELSE IF ~Has(acc.types, Prefix(constr.key))
            THEN Raise(acc, KeyErrorKey(Prefix(constr.key)))
            ELSE IF constr.cls # "CheckConstraint" THEN acc
            ELSE [acc EXCEPT !.types = [i \in 1..Len(@) |->
                    IF @[i].key = Prefix(constr.key)
                    THEN [@[i] EXCEPT !.check_constraints =
                            IF @ = None THEN Some(<<constr.key[3]>>)
                            ELSE IF \E j \in 1..Len(@[1]) :
                                        @[1][j] = constr.key[3]
                            THEN @ ELSE Some(Append(@[1], constr.key[3]))]
                    ELSE @[i]]]
        TypStep(acc, t) ==
            IF Raised(acc) \/ t.cls # "BaseType" THEN acc
            ELSE LinkBaseType(acc.types, acc.funcs, t.key)
    IN  Fold(TypStep,
             Fold(CnsStep,
                  Fold(ColStep,
                       [types |-> self, funcs |-> dbfuncs, err |-> NoErr],
                       dbcolumns),
                  dbconstrs),
             self)

\* The creates of the support procedures of a base type, after the
\* statements first: self.dep_funcs[role].create(basetype=True) for input,
\* output and each bound role of OPT_FUNCS, or the error of the first call
\* that raised
DepCreates(self, dbfuncs, first) ==
    LET Step(acc, role) ==
            IF Raised(acc) THEN acc
            ELSE IF ~DepHas(self.dep_funcs[1], role)
            THEN IF role \in {"input", "output"}
                 THEN Raise(acc, KeyErrorKey(<<role>>))
                 ELSE acc
            ELSE LET r == Function_create(
                            Get(dbfuncs, DepGet(self.dep_funcs[1], role)),
                            NULL, TRUE)
                 IN  IF Raised(r) THEN Raise(acc, r.err)
                     ELSE [acc EXCEPT !.out = @ \o r.out]
    IN  Fold(Step, Returned(first), <<"input", "output">> \o OPT_FUNCS)

\* BaseType.create writing the full definition ahead of the creates of the
\* support procedures
BaseType_create_definition_first(self, dbfuncs) ==
    LET r == DepCreates(self, dbfuncs,
                        <<Stmt("create", self, "shell"),
                          Stmt("create", self, "")>>)
    IN  IF Raised(r) THEN [out |-> <<>>, err |-> r.err]
        ELSE Returned(Commentable(self, Ownable(self, r.out)))

\* BaseType.create under @commentable @ownable; dbfuncs is the procedure
\* collection the dep_funcs of the type were bound in
BaseType_create(self, dbfuncs) ==
    LET r == DepCreates(self, dbfuncs, <<Stmt("create", self, "shell")>>)
    IN  IF Raised(r) THEN [out |-> <<>>, err |-> r.err]
        ELSE Returned(Commentable(self, Ownable(self,
                r.out \o <<Stmt("create", self, "")>>)))

\* Composite.create, Enum.create and Domain.create
DbType_create(self) ==
    Commentable(self, Ownable(self, <<Stmt("create", self, "")>>))

Type_create(self, dbfuncs) ==
    IF self.cls = "BaseType" THEN BaseType_create(self, dbfuncs)
    ELSE Returned(DbType_create(self))

\* dbtype.drop(): BaseType.drop adds CASCADE and leaves the marker alone;
\* the other types inherit DbSchemaObject.drop
Type_drop(self) ==
    IF self.cls = "BaseType"
    THEN [obj |-> self, out |-> <<Stmt("drop", self, "CASCADE")>>]
    ELSE DbSchemaObject_drop(self)
\* stmts.append(dbtype.drop()) on type i of acc.cur, and
\* stmts.append(dbtype.dep_funcs[func].drop()) on the procedure of that key
DropTypeAt(acc, i) ==
    LET r == Type_drop(acc.cur[i])
    IN  [acc EXCEPT !.cur[i] = r.obj, !.out = Append(@, r.out)]
DropDepFunc(acc, key) ==
    LET r == DbSchemaObject_drop(Get(acc.funcs, key))
    IN  [acc EXCEPT
            !.funcs = [i \in 1..Len(@) |->
                          IF @[i].key = key THEN r.obj ELSE @[i]],
            !.out = Append(@, r.out)]

\* Composite.diff_map.  An attribute is [name, type, oldname, dropped].
Composite_diff_map(self, intype) ==
    LET attrs == self.attributes[1]
        attrnames == {attrs[i].name : i \in {j \in 1..Len(attrs) :
                                             attrs[j].dropped = ABSENT}}
        dbattrs == Cardinality({j \in 1..Len(attrs) :
                                attrs[j].dropped = ABSENT})
        AttrStmt(what, a, val) ==
            [op |-> what, cls |-> "Attribute", obj |-> self.key \o <<a.name>>,
             val |-> val, clauses |-> <<>>]
        Step(acc, num) ==
            LET inattr == intype.attributes[1][num]
                a1 == IF Raised(acc) \/ inattr.oldname = ABSENT THEN acc
                      ELSE IF num > Len(attrs)
                      THEN Raise(acc, [exc |-> "IndexError", names |-> {}])
                      ELSE IF attrs[num].name # inattr.oldname
                      THEN Raise(acc, [exc |-> "AssertionError",
                                       names |-> {}])
                      ELSE Emit(acc, AttrStmt("rename", attrs[num],
                                              inattr.name))
            IN  IF Raised(a1) THEN a1
                ELSE IF num <= dbattrs /\ attrs[num].name = inattr.name
                THEN IF attrs[num].type # inattr.type
                     THEN Emit(a1, AttrStmt("alter", attrs[num], inattr.type))
                     ELSE a1
                ELSE IF inattr.name \notin attrnames
                THEN Emit(a1, AttrStmt("alter", inattr, "ADD ATTRIBUTE"))
                ELSE a1
        r == IF intype.attributes = None
             THEN [out |-> <<>>,
                   err |-> [exc |-> "KeyError", names |-> {intype.name}]]
             ELSE Fold(Step, [out |-> <<>>, err |-> NoErr],
                       [i \in 1..Len(intype.attributes[1]) |-> i])
    IN  IF Raised(r) THEN r
        ELSE [r EXCEPT !.out = @
                \o (IF intype.owner # NULL /\ intype.owner # self.owner
                    THEN <<AlterOwner(self, intype.owner)>> ELSE <<>>)
                \o DiffDescription(self, intype)]

\* dbtype.diff_map(intype): Composite overrides it, the rest inherit it
Type_diff_map(self, intype) ==
    IF self.cls = "Composite" THEN Composite_diff_map(self, intype)
    ELSE [out |-> DbObject_diff_map(self, intype), err |-> NoErr]

\* infuncs is the procedure collection of the desired side, in which the
\* dep_funcs of the desired base types were bound
TypeDict_diff_map(self, intypes, infuncs) ==
    LET Step(acc, intype) ==
            IF Raised(acc) \/ Has(acc.cur, intype.key) THEN acc
            ELSE IF intype.oldname = ABSENT
            THEN EmitCall(acc, Type_create(intype, infuncs))
            ELSE IF Has(acc.cur, <<intype.key[1], intype.oldname>>)
            THEN [acc EXCEPT
                    !.out = Append(@, <<Rename(
                        Get(acc.cur, <<intype.key[1], intype.oldname>>),
                        intype.name)>>),
                    !.cur = Del(@, <<intype.key[1], intype.oldname>>)]
            ELSE Raise(acc, KeyErrorKey(<<intype.key[1], intype.oldname>>))
        r1 == Fold(Step, [cur |-> self, out |-> <<>>, err |-> NoErr],
                   intypes)
        Step2(acc, i) ==
            IF Raised(acc) THEN acc
            ELSE IF ~Has(intypes, acc.cur[i].key)
            THEN [acc EXCEPT !.cur[i].dropped = "False"]
            ELSE LET d == Type_diff_map(acc.cur[i],
                                        Get(intypes, acc.cur[i].key))
                 IN  IF Raised(d) THEN Raise(acc, d.err)
                     ELSE Emit(acc, d.out)
    IN  Fold(Step2, r1, [i \in 1..Len(r1.cur) |-> i])

\* TypeDict._drop testing the truth of the marker instead of its presence
TypeDict_drop_truthy(self, dbfuncs) ==
    LET Step(acc, i) ==
            IF acc.cur[i].dropped # "True" THEN acc
            ELSE DropTypeAt(acc, i)
    IN  Fold(Step, [cur |-> self, funcs |-> dbfuncs, out |-> <<>>],
             Indexes(self))

\* TypeDict._drop dropping every dependent procedure of a base type
TypeDict_drop_alldeps(self, dbfuncs) ==
    LET Step(acc, i) ==
            IF acc.cur[i].dropped = ABSENT THEN acc
            ELSE IF acc.cur[i].cls # "BaseType" THEN DropTypeAt(acc, i)
            ELSE Fold(LAMBDA a, d : DropDepFunc(a, d[2]),
                      DropTypeAt(acc, i), acc.cur[i].dep_funcs[1])
    IN  Fold(Step, [cur |-> self, funcs |-> dbfuncs, out |-> <<>>],
             Indexes(self))

\* dbfuncs is the procedure collection of the current side, which holds the
\* procedures dep_funcs refers to; cur and funcs are the two collections
\* after the call
TypeDict_drop(self, dbfuncs) ==
    LET Step(acc, i) ==
            IF acc.cur[i].dropped = ABSENT THEN acc
            ELSE IF acc.cur[i].cls # "BaseType" THEN DropTypeAt(acc, i)
            ELSE Fold(LAMBDA a, d :
                        IF d[1] \in {"typmod_in", "typmod_out", "analyze"}
                        THEN DropDepFunc(a, d[2]) ELSE a,
                      DropTypeAt(acc, i), acc.cur[i].dep_funcs[1])
    IN  Fold(Step, [cur |-> self, funcs |-> dbfuncs, out |-> <<>>],
             Indexes(self))

-----------------------------------------------------------------------------
(* link_refs of languages, wrappers, servers and schemas *)

\* The dictionary attribute attr of an entity: hasattr, and update({k: obj})
HasLinked(e, attr) == \E i \in 1..Len(e.linked) : e.linked[i][1] = attr
LinkUpdate(e, attr, k, objkey) ==
    [e EXCEPT !.linked =
        IF \E i \in 1..Len(@) : @[i][1] = attr /\ @[i][2] = k
        THEN [i \in 1..Len(@) |->
                IF @[i][1] = attr /\ @[i][2] = k THEN <<attr, k, objkey>>
                ELSE @[i]]
        ELSE Append(@, <<attr, k, objkey>>)]
LinkIn(c, key, attr, k, objkey) ==
    [i \in 1..Len(c) |->
        IF c[i].key = key THEN LinkUpdate(c[i], attr, k, objkey) ELSE c[i]]

\* LanguageDict.link_refs(dbfunctions, langs)
LanguageDict_link_refs(self, dbfunctions, inlangs) ==
    LET Step(acc, func) ==
            IF Raised(acc) \/ func.language \in {"sql", "c", "internal"}
            THEN acc
            ELSE IF ~Has(acc.cur, <<func.language>>)
            THEN IF func.language \in inlangs THEN acc
                 ELSE Raise(acc, KeyErrorKey(<<func.language>>))
            ELSE IF func.cls = "Function"
            THEN [acc EXCEPT !.cur = LinkIn(@, <<func.language>>,
                                    "functions", func.key[2], func.key)]
            ELSE acc
    IN  Fold(Step, [cur |-> self, err |-> NoErr], dbfunctions)

\* ForeignDataWrapperDict.link_refs that passes over a server whose wrapper
\* is missing
ForeignDataWrapperDict_link_refs_skip(self, dbservers) ==
    LET Step(acc, dbserver) ==
            IF ~Has(acc.cur, <<dbserver.key[1]>>) THEN acc
            ELSE [acc EXCEPT !.cur = LinkIn(@, <<dbserver.key[1]>>,
                                    "servers", dbserver.key[2], dbserver.key)]
    IN  Fold(Step, [cur |-> self, err |-> NoErr], dbservers)

\* ForeignDataWrapperDict.link_refs(dbservers)
ForeignDataWrapperDict_link_refs(self, dbservers) ==
    LET Step(acc, dbserver) ==
            IF Raised(acc) THEN acc
            ELSE IF ~Has(acc.cur, <<dbserver.key[1]>>)
            THEN Raise(acc, KeyErrorKey(<<dbserver.key[1]>>))
            ELSE [acc EXCEPT !.cur = LinkIn(@, <<dbserver.key[1]>>,
                                    "servers", dbserver.key[2], dbserver.key)]
    IN  Fold(Step, [cur |-> self, err |-> NoErr], dbservers)

\* ForeignServerDict.link_refs putting a user mapping into the usermaps of
\* every server of its wrapper
ForeignServerDict_link_refs_wrapper(self, dbusermaps) ==
    LET Step(acc, dbusermap) ==
            IF Raised(acc) THEN acc
            ELSE IF ~Has(acc.cur, Prefix(dbusermap.key))
            THEN Raise(acc, KeyErrorKey(Prefix(dbusermap.key)))
            ELSE [acc EXCEPT !.cur =
                    [i \in 1..Len(@) |->
                        IF @[i].key[1] = dbusermap.key[1]
                        THEN LinkUpdate(@[i], "usermaps", dbusermap.key[3],
                                        dbusermap.key)
                        ELSE @[i]]]
    IN  Fold(Step, [cur |-> self, err |-> NoErr], dbusermaps)

\* ForeignServerDict.link_refs(dbusermaps)
ForeignServerDict_link_refs(self, dbusermaps) ==
    LET Step(acc, dbusermap) ==
            IF Raised(acc) THEN acc
            ELSE IF ~Has(acc.cur, Prefix(dbusermap.key))
            THEN Raise(acc, KeyErrorKey(Prefix(dbusermap.key)))
            ELSE [acc EXCEPT !.cur = LinkIn(@, Prefix(dbusermap.key),
                                    "usermaps", dbusermap.key[3],
                                    dbusermap.key)]
    IN  Fold(Step, [cur |-> self, err |-> NoErr], dbusermaps)

\* rettype.upper().startswith("SETOF "): the written word in any case
Upper(word) == IF word \in {"setof", "SetOf", "SETOF"} THEN "SETOF" ELSE word
\* The return type taken as written, SETOF included
StripSetof_keep(rettype) == rettype

StripSetof(rettype) ==
    IF Len(rettype) > 1 /\ Upper(rettype[1]) = "SETOF" THEN Tail(rettype)
    ELSE rettype

\* link_one that puts the object into every schema of the collection
link_one_everywhere(acc, objkeys, subtype) ==
    IF ~Has(acc.cur, <<objkeys[1]>>)
    THEN Raise(acc, KeyErrorKey(<<objkeys[1]>>))
    ELSE [acc EXCEPT !.cur =
            [i \in 1..Len(@) |->
                LinkUpdate(@[i], subtype, Tail(objkeys), objkeys)]]

\* link_one of SchemaDict.link_refs: the schema objkeys[0] gets the object
\* under its attribute subtype
link_one(acc, objkeys, subtype) ==
    IF ~Has(acc.cur, <<objkeys[1]>>)
    THEN Raise(acc, KeyErrorKey(<<objkeys[1]>>))
    ELSE [acc EXCEPT !.cur = LinkIn(@, <<objkeys[1]>>, subtype,
                                    Tail(objkeys), objkeys)]

\* SchemaDict.link_refs(db, datacopy) for a db that holds types, tables,
\* functions and foreign tables, and an empty datacopy.  A table is
\* [key, cls, dependent_funcs].
SchemaDict_link_refs(self, dbtypes, dbtables, dbfunctions, dbftables) ==
    LET TypStep(acc, dbtype) ==
            IF Raised(acc) THEN acc
            ELSE IF dbtype.cls = "Domain"
            THEN link_one(acc, dbtype.key, "domains")
            ELSE IF dbtype.cls \in {"Enum", "Composite", "BaseType"}
            THEN link_one(acc, dbtype.key, "types")
            ELSE acc
        TblStep(acc, table) ==
            IF Raised(acc) THEN acc
            ELSE IF table.cls = "Table"
            THEN link_one(acc, table.key, "tables")
            ELSE IF table.cls = "Sequence"
            THEN link_one(acc, table.key, "sequences")
            ELSE IF table.cls = "MaterializedView"
            THEN link_one(acc, table.key, "matviews")
            ELSE IF table.cls = "View"
            THEN link_one(acc, table.key, "views")
            ELSE acc
        FncStep(acc, n) ==
            IF Raised(acc) THEN acc
            ELSE LET func == acc.funcs[n]
                     a1 == link_one(acc, func.key, "functions")
                     ret == split_schema_obj(StripSetof(func.returns[1]),
                                             func.key[1])
                 IN  IF Raised(a1) \/ func.returns = None
                        \/ ~Has(a1.tables, ret)
                     THEN a1
                     ELSE [a1 EXCEPT
                            !.funcs[n].dependent_table =
                                IF @ = None THEN Some(ret) ELSE @,
                            !.tables = [i \in 1..Len(@) |->
                                IF @[i].key = ret
                                THEN [@[i] EXCEPT !.dependent_funcs =
                                        IF @ = None THEN Some(<<func.key>>)
                                        ELSE Some(Append(@[1], func.key))]
                                ELSE @[i]]]
        ObjStep(acc, ftable) ==
            IF Raised(acc) THEN acc
            ELSE link_one(acc, ftable.key, "ftables")
    IN  Fold(ObjStep,
             Fold(FncStep,
                  Fold(TblStep,
                       Fold(TypStep,
                            [cur |-> self, funcs |-> dbfunctions,
                             tables |-> dbtables, err |-> NoErr],
                            dbtypes),
                       dbtables),
                  [n \in 1..Len(dbfunctions) |-> n]),
             dbftables)

-----------------------------------------------------------------------------
(* Ingestion: from_map and _from_catalog *)

\* An entity as ingestion builds it: its class, its key and its attribute
\* dictionary past the key, a sequence of <<attribute, value>>.  A map is a
\* sequence of entries [key, body]: key holds the words of the written key
\* ("type a" is <<"type", "a">>, "function f(x)" is <<"function", "f", "x">>)
\* and body is None for a null body, else Some of the <<sub-key, value>>
\* pairs of the nested map.
New(cls, key) == [cls |-> cls, key |-> key, dict |-> <<>>]
HasAttr(o, a) == \E i \in 1..Len(o.dict) : o.dict[i][1] = a
GetAttr(o, a) == o.dict[CHOOSE i \in 1..Len(o.dict) : o.dict[i][1] = a][2]
SetAttr(o, a, v) ==
    [o EXCEPT !.dict =
        IF \E i \in 1..Len(@) : @[i][1] = a
        THEN [i \in 1..Len(@) |-> IF @[i][1] = a THEN <<a, v>> ELSE @[i]]
        ELSE Append(@, <<a, v>>)]
\* for attr, val in body.items(): setattr(o, attr, val)
SetAttrs(o, pairs) == Fold(LAMBDA x, pr : SetAttr(x, pr[1], pr[2]), o, pairs)

\* self[key] = o, and setattr on the entity stored under a key
Put(c, o) ==
    IF Has(c, o.key)
    THEN [i \in 1..Len(c) |-> IF c[i].key = o.key THEN o ELSE c[i]]
    ELSE Append(c, o)
SetIn(c, key, pairs) ==
    [i \in 1..Len(c) |->
        IF c[i].key = key THEN SetAttrs(c[i], pairs) ELSE c[i]]

\* 'k' in body, and the truth value of a body: None and {} are false
InBody(body, k) == \E i \in 1..Len(body[1]) : body[1][i][1] = k
BodyGet(body, k) ==
    body[1][CHOOSE i \in 1..Len(body[1]) : body[1][i][1] = k][2]
Empty(body) == body = None \/ body = Some(<<>>)

Error(exc, name) == [exc |-> exc, names |-> {name}]

\* TypeDict.from_map(schema, inobjs, newdb).  acc.dtype is the local variable
\* dtype: the key of the entity it is bound to, None while it is unbound.
\* The from_map calls on newdb.constraints and newdb.columns succeed.
TypeDict_from_map(schema, inmap) ==
    LET Bind(acc, cls, key) ==
            [acc EXCEPT !.cur = Put(@, New(cls, key)), !.dtype = Some(key)]
        Step(acc, entry) ==
            LET objtype == entry.key[1]
                key == <<schema, entry.key[2]>>
                body == entry.body
            IN  IF Raised(acc) THEN acc
                ELSE IF Len(entry.key) < 2 \/ objtype \notin {"domain", "type"}
                THEN Raise(acc, Error("KeyError", objtype))
                ELSE IF objtype = "domain"
                THEN LET a1 == [acc EXCEPT !.cur = Put(@, New("Domain", key))]
                     IN  IF Empty(body)
                         THEN Raise(a1, Error("ValueError", entry.key[2]))
                         ELSE [a1 EXCEPT !.cur = SetIn(@, key, body[1])]
                ELSE IF body = None
                THEN Raise(acc, Error("TypeError", entry.key[2]))
                ELSE LET a1 == IF InBody(body, "labels")
                               THEN Bind(acc, "Enum", key)
                               ELSE IF InBody(body, "attributes")
                               THEN Bind(acc, "Composite", key)
                               ELSE IF InBody(body, "input")
                               THEN Bind(acc, "BaseType", key)
                               ELSE acc
                     IN  IF body[1] = <<>> THEN a1
                         ELSE IF a1.dtype = None
                         THEN Raise(a1, Error("UnboundLocalError", "dtype"))
                         ELSE [a1 EXCEPT
                                !.cur = SetIn(@, a1.dtype[1], body[1])]
    IN  Fold(Step, [cur |-> <<>>, dtype |-> None, err |-> NoErr], inmap)

\* volatility[:1].lower() of the volatility words and letters
FirstLower(word) ==
    CASE word \in {"immutable", "IMMUTABLE", "i"} -> "i"
      [] word \in {"stable", "STABLE", "s"} -> "s"
      [] word \in {"volatile", "VOLATILE", "v"} -> "v"
      [] OTHER -> word

\* ProcDict.from_map accepting a function that has neither source nor
\* obj_file
ProcDict_from_map_either(schema, inmap) ==
    LET Step(acc, entry) ==
            LET objtype == entry.key[1]
                body == entry.body
            IN  IF Raised(acc) THEN acc
                ELSE IF Len(entry.key) < 2
                        \/ objtype \notin {"function", "aggregate"}
                THEN Raise(acc, Error("KeyError", objtype))
                ELSE IF Len(entry.key) < 3
                THEN Raise(acc, Error("KeyError", entry.key[2]))
                ELSE LET key == <<schema, entry.key[2], entry.key[3]>>
                         func == IF objtype = "function"
                                 THEN New("Function", key)
                                 ELSE SetAttr(New("Aggregate", key),
                                              "language", "internal")
                         a1 == [acc EXCEPT !.cur = Put(@, func)]
                     IN  IF Empty(body)
                         THEN Raise(a1, Error("ValueError", entry.key[2]))
                         ELSE LET f1 == SetAttrs(func, body[1])
                                  f2 == IF HasAttr(f1, "volatility")
                                        THEN SetAttr(f1, "volatility",
                                               FirstLower(GetAttr(f1,
                                                            "volatility")))
                                        ELSE f1
                                  a2 == [a1 EXCEPT !.cur = Put(@, f2)]
                                  src == HasAttr(f2, "source")
                                  obj == HasAttr(f2, "obj_file")
                              IN  IF f2.cls = "Function" /\ src /\ obj
                                  THEN Raise(a2, Error("ValueError",
                                                       entry.key[2]))
                                  ELSE a2
    IN  Fold(Step, [cur |-> <<>>, err |-> NoErr], inmap)

\* ProcDict.from_map(schema, infuncs) for bodies without privileges; a key
\* without parentheses has no third word
ProcDict_from_map(schema, inmap) ==
    LET Step(acc, entry) ==
            LET objtype == entry.key[1]
                body == entry.body
            IN  IF Raised(acc) THEN acc
                ELSE IF Len(entry.key) < 2
                        \/ objtype \notin {"function", "aggregate"}
                THEN Raise(acc, Error("KeyError", objtype))
                ELSE IF Len(entry.key) < 3
                THEN Raise(acc, Error("KeyError", entry.key[2]))
                ELSE LET key == <<schema, entry.key[2], entry.key[3]>>
                         func == IF objtype = "function"
                                 THEN New("Function", key)
                                 ELSE SetAttr(New("Aggregate", key),
                                              "language", "internal")
                         a1 == [acc EXCEPT !.cur = Put(@, func)]
                     IN  IF Empty(body)
                         THEN Raise(a1, Error("ValueError", entry.key[2]))
                         ELSE LET f1 == SetAttrs(func, body[1])
                                  f2 == IF HasAttr(f1, "volatility")
                                        THEN SetAttr(f1, "volatility",
                                               FirstLower(GetAttr(f1,
                                                            "volatility")))
                                        ELSE f1
                                  a2 == [a1 EXCEPT !.cur = Put(@, f2)]
                                  src == HasAttr(f2, "source")
                                  obj == HasAttr(f2, "obj_file")
                              IN  IF f2.cls = "Function"
                                     /\ ((src /\ obj) \/ ~(src \/ obj))
                                  THEN Raise(a2, Error("ValueError",
                                                       entry.key[2]))
                                  ELSE a2
    IN  Fold(Step, [cur |-> <<>>, err |-> NoErr], inmap)

\* VOLATILITY_TYPES
VOLATILITY_TYPES(v) ==
    CASE v = "i" -> "immutable" [] v = "s" -> "stable" [] v = "v" -> "volatile"

\* Function.to_map of an ingested function: the map it returns, or the
\* AttributeError of reading an attribute the function does not have.  The
\* map DbObject._base_map returns holds every attribute past the key.
Function_to_map_ingested(func) ==
    LET AttrError(a) == [map |-> <<>>, err |-> Error("AttributeError", a)]
        Without(d, a) == SelectSeq(d, LAMBDA pr : pr[1] # a)
        With(d, a, v) ==
            IF \E i \in 1..Len(d) : d[i][1] = a
            THEN [i \in 1..Len(d) |-> IF d[i][1] = a THEN <<a, v>> ELSE d[i]]
            ELSE Append(d, <<a, v>>)
        d0 == func.dict
    IN  IF ~HasAttr(func, "volatility") THEN AttrError("volatility")
        ELSE
        LET d1 == IF GetAttr(func, "volatility") = "v"
                  THEN Without(d0, "volatility")
                  ELSE With(d0, "volatility",
                            VOLATILITY_TYPES(GetAttr(func, "volatility")))
        IN  IF HasAttr(func, "obj_file") /\ ~HasAttr(func, "source")
            THEN AttrError("source")
            ELSE
            LET d2 == IF HasAttr(func, "obj_file")
                      THEN Without(With(d1, "link_symbol",
                                        GetAttr(func, "source")), "source")
                      ELSE d1
                costset == HasAttr(func, "cost") /\ GetAttr(func, "cost") # 0
            IN  IF costset /\ ~HasAttr(func, "language")
                THEN AttrError("language")
                ELSE
                LET d3 == IF costset
                             /\ GetAttr(func, "cost") =
                                  (IF GetAttr(func, "language")
                                        \in {"c", "internal"}
                                   THEN 1 ELSE 100)
                          THEN Without(d2, "cost") ELSE d2
                    d4 == IF HasAttr(func, "rows")
                             /\ GetAttr(func, "rows") # 0
                             /\ GetAttr(func, "rows") = 1000
                          THEN Without(d3, "rows") ELSE d3
                IN  [map |-> d4, err |-> NoErr]

\* del body['oldname'] of a body that is neither null nor empty: it changes
\* the map of the caller
DelOldname(body) ==
    IF Empty(body) THEN body
    ELSE Some(SelectSeq(body[1], LAMBDA pr : pr[1] # "oldname"))

\* LanguageDict.from_map(inmap).  The oldname it deletes from a body stays on
\* the entity; inmap is the map of the caller after the call.
LanguageDict_from_map(inmap) ==
    LET Step(acc, n) ==
            LET entry == inmap[n]
            IN  IF Raised(acc) THEN acc
                ELSE IF Len(entry.key) < 2 \/ entry.key[1] # "language"
                THEN Raise(acc, Error("KeyError", entry.key[1]))
                ELSE LET language == New("Language", <<entry.key[2]>>)
                     IN  [acc EXCEPT
                            !.cur = Put(@,
                                IF Empty(entry.body) THEN language
                                ELSE SetAttrs(language, entry.body[1])),
                            !.inmap[n].body = DelOldname(entry.body)]
    IN  Fold(Step, [cur |-> <<>>, err |-> NoErr, inmap |-> inmap],
             [n \in 1..Len(inmap) |-> n])

\* UserMappingDict.from_map(server, inusermaps): the keys of inusermaps are
\* the user names; usermaps is newdb.usermaps, and inusermaps is the map of
\* the caller after the call
UserMappingDict_from_map(usermaps, server, inusermaps) ==
    LET Step(a, n) ==
            LET entry == inusermaps[n]
                usermap == New("UserMapping", server.key \o <<entry.key[1]>>)
            IN  [a EXCEPT
                    !.usermaps = Put(@,
                        IF Empty(entry.body) THEN usermap
                        ELSE SetAttrs(usermap, entry.body[1])),
                    !.inusermaps[n].body = DelOldname(entry.body)]
    IN  Fold(Step, [usermaps |-> usermaps, inusermaps |-> inusermaps],
             [n \in 1..Len(inusermaps) |-> n])

\* ForeignServerDict.from_map(wrapper, inservers, newdb) for bodies without
\* privileges; the value of 'user mappings' is a map.  The attribute
\* 'user mappings' of the server is the very map UserMappingDict.from_map
\* deletes oldname from; inmap is the map of the caller after the call.
ForeignServerDict_from_map(wrapper, inmap) ==
    LET Step(acc, n) ==
            LET entry == inmap[n]
            IN  IF Raised(acc) THEN acc
                ELSE IF Len(entry.key) < 2 \/ entry.key[1] # "server"
                THEN Raise(acc, Error("KeyError", entry.key[1]))
                ELSE
                LET serv == New("ForeignServer", <<wrapper, entry.key[2]>>)
                    a1 == [acc EXCEPT !.cur = Put(@, serv)]
                IN  IF Empty(entry.body) THEN a1
                    ELSE
                    LET um == IF InBody(entry.body, "user mappings")
                              THEN UserMappingDict_from_map(
                                      acc.usermaps, serv,
                                      BodyGet(entry.body, "user mappings"))
                              ELSE [usermaps |-> acc.usermaps,
                                    inusermaps |-> <<>>]
                        inserv ==
                            [i \in 1..Len(entry.body[1]) |->
                                IF entry.body[1][i][1] = "user mappings"
                                THEN <<"user mappings", um.inusermaps>>
                                ELSE entry.body[1][i]]
                    IN  [a1 EXCEPT
                            !.cur = SetIn(@, serv.key, inserv),
                            !.usermaps = um.usermaps,
                            !.inmap[n].body = DelOldname(Some(inserv))]
    IN  Fold(Step, [cur |-> <<>>, usermaps |-> <<>>, err |-> NoErr,
                    inmap |-> inmap],
             [n \in 1..Len(inmap) |-> n])

\* ForeignTableDict.from_map(schema, inobjs, newdb) for bodies without
\* privileges; "foreign table x" is <<"foreign table", "x">>.  The from_map
\* call on newdb.columns succeeds.
ForeignTableDict_from_map(schema, inmap) ==
    LET Copy(o, body, attr) ==
            IF InBody(body, attr) THEN SetAttr(o, attr, BodyGet(body, attr))
            ELSE o
        Step(acc, entry) ==
            IF Raised(acc) THEN acc
            ELSE IF Len(entry.key) < 2 \/ entry.key[1] # "foreign table"
            THEN Raise(acc, Error("KeyError", entry.key[1]))
            ELSE LET ftable == New("ForeignTable", <<schema, entry.key[2]>>)
                     a1 == [acc EXCEPT !.cur = Put(@, ftable)]
                 IN  IF Empty(entry.body)
                     THEN Raise(a1, Error("ValueError", entry.key[2]))
                     ELSE IF ~InBody(entry.body, "columns")
                     THEN Raise(a1, Error("KeyError", entry.key[2]))
                     ELSE [a1 EXCEPT !.cur = Put(@,
                            Fold(LAMBDA o, attr : Copy(o, entry.body, attr),
                                 ftable,
                                 <<"server", "options", "owner",
                                   "description">>))]
    IN  Fold(Step, [cur |-> <<>>, err |-> NoErr], inmap)

\* TypeDict._from_catalog without its branch for the kind 'c'
TypeDict_from_catalog_nocomposite(rows) ==
    LET Base(row) ==
            Fold(LAMBDA o, attr :
                    IF attr \in {"input", "output"} \/ row.funcs[attr] # "-"
                    THEN SetAttr(o, attr, row.funcs[attr]) ELSE o,
                 New("BaseType", row.key),
                 <<"input", "output">> \o OPT_FUNCS)
        Step(acc, row) ==
            IF row.kind = "d"
            THEN Put(acc, SetAttr(New("Domain", row.key), "type", "integer"))
            ELSE IF row.kind = "e"
            THEN Put(acc, SetAttr(New("Enum", row.key), "labels", "{}"))
            ELSE IF row.kind = "b" THEN Put(acc, Base(row))
            ELSE acc
    IN  [cur |-> Fold(Step, <<>>, rows), err |-> NoErr]

\* TypeDict._from_catalog.  A fetched row is [key, kind, funcs]: funcs gives
\* for each of input, output and OPT_FUNCS the procedure name, '-' for none.
TypeDict_from_catalog(rows) ==
    LET Base(row) ==
            Fold(LAMBDA o, attr :
                    IF attr \in {"input", "output"} \/ row.funcs[attr] # "-"
                    THEN SetAttr(o, attr, row.funcs[attr]) ELSE o,
                 New("BaseType", row.key),
                 <<"input", "output">> \o OPT_FUNCS)
        Step(acc, row) ==
            IF row.kind = "d"
            THEN Put(acc, SetAttr(New("Domain", row.key), "type", "integer"))
            ELSE IF row.kind = "e"
            THEN Put(acc, SetAttr(New("Enum", row.key), "labels", "{}"))
            ELSE IF row.kind = "c" THEN Put(acc, New("Composite", row.key))
            ELSE IF row.kind = "b" THEN Put(acc, Base(row))
            ELSE acc
    IN  [cur |-> Fold(Step, <<>>, rows), err |-> NoErr]

\* The statements the decorators @ownable and @commentable add to the create
\* of an ingested entity
Decorated(self, group) ==
    group
    \o (IF HasAttr(self, "owner")
        THEN <<[op |-> "owner", cls |-> self.cls, obj |-> self.key,
                val |-> GetAttr(self, "owner"), clauses |-> <<>>]>>
        ELSE <<>>)
    \o (IF HasAttr(self, "description")
        THEN <<[op |-> "comment", cls |-> self.cls, obj |-> self.key,
                val |-> GetAttr(self, "description"), clauses |-> <<>>]>>
        ELSE <<>>)

\* The element of "'%s'" % lbl
Quoted(lbl) == "'" \o lbl \o "'"

\* Enum.create writing each distinct label once
Enum_create_distinct(self) ==
    LET labels == GetAttr(self, "labels")
        first == SelectSeq([i \in 1..Len(labels) |-> i],
                           LAMBDA i : \A j \in 1..(i - 1) :
                                          labels[j] # labels[i])
    IN  Decorated(self,
            <<[op |-> "create", cls |-> self.cls, obj |-> self.key,
               val |-> "AS ENUM",
               clauses |-> [k \in 1..Len(first) |->
                               Quoted(labels[first[k]])]]>>)

\* Enum.create under @commentable @ownable of an ingested enum: clauses is
\* the list lbls that is joined between the parentheses
Enum_create(self) ==
    LET labels == GetAttr(self, "labels")
    IN  Decorated(self,
            <<[op |-> "create", cls |-> self.cls, obj |-> self.key,
               val |-> "AS ENUM",
               clauses |-> [i \in 1..Len(labels) |-> Quoted(labels[i])]]>>)

-----------------------------------------------------------------------------
(* The collections a run starts from *)

\* Injective sequences over S of length at most MaxObjs (a specification's
\* key order), and those that follow the catalog's ORDER BY name
NameSeqs(S) ==
    {ns \in UNION {[1..n -> S] : n \in 0..MaxObjs} :
        \A i, j \in 1..Len(ns) : i # j => ns[i] # ns[j]}

NameOrder == <<"a", "b", "f", "g", "pg_catalog", "plperl", "plpgsql",
               "public", "s1", "t", "u">>
Rank(n) == CHOOSE i \in 1..Len(NameOrder) : NameOrder[i] = n
SortedNameSeqs(S) ==
    {ns \in NameSeqs(S) :
        \A i, j \in 1..Len(ns) : i < j => Rank(ns[i]) < Rank(ns[j])}

\* Collections whose i-th entity is Mk(ns[i], v) for some variant v
Colls(nameseqs, Variants, Mk(_, _)) ==
    UNION {{[i \in 1..Len(ns) |-> Mk(ns[i], vs[i])] :
                vs \in [1..Len(ns) -> Variants]} : ns \in nameseqs}

Names == {"a", "b"}
SimpleKinds == {"schema", "language", "fdw", "server", "usermap", "ftable"}
DropKinds == {"schema", "language", "fdw", "server"}

ClsOf(k) ==
    CASE k = "schema" -> "Schema"
      [] k = "language" -> "Language"
      [] k = "fdw" -> "ForeignDataWrapper"
      [] k = "server" -> "ForeignServer"
      [] k = "usermap" -> "UserMapping"
      [] k = "ftable" -> "ForeignTable"

\* Key parts in front of the name: (wrapper), (wrapper, server), (schema)
PrefixOf(k) ==
    CASE k = "server" -> <<"w">>
      [] k = "usermap" -> <<"w", "s">>
      [] k = "ftable" -> <<"public">>
      [] OTHER -> <<>>

NamesOf(k) ==
    CASE k = "schema" -> Names \cup {"public", "pg_catalog"}
      [] k = "language" -> Names \cup {"plpgsql"}
      [] OTHER -> Names

\* linked holds the dictionaries link_refs sets on the entity: one
\* <<attribute, local key, key of the linked object>> per dictionary item
Entity(k, name, v) ==
    [key |-> PrefixOf(k) \o <<name>>, cls |-> ClsOf(k), name |-> name,
     owner |-> v.owner, description |-> NULL, oldname |-> v.oldname,
     dropped |-> ABSENT, options |-> v.options, ext |-> v.ext,
     linked |-> <<>>]

HasOptions(k) == k \in {"fdw", "server", "usermap", "ftable"}
OptionSets(k) == IF HasOptions(k) THEN {None, Some(<<(<<"k", "1">>)>>)}
                 ELSE {None}
CurOwners(k) == IF k = "usermap" THEN {NULL} ELSE {"o1"}
DesOwners(k) == IF k = "usermap" THEN {NULL} ELSE {NULL, "o1", "o2"}

\* Catalog entities carry an owner and no oldname
CurVariants(k) ==
    [owner : CurOwners(k), oldname : {ABSENT}, options : OptionSets(k),
     ext : {ABSENT}]
\* Specification entities; a language of an extension (_ext) is not renamed
DesVariants(k) ==
    [owner : DesOwners(k), oldname : {ABSENT} \cup Names,
     options : OptionSets(k), ext : {ABSENT}]
    \cup (IF k = "language"
          THEN [owner : DesOwners(k), oldname : {ABSENT},
                options : {None}, ext : {"True"}]
          ELSE {})

CurColls(k) ==
    Colls(SortedNameSeqs(NamesOf(k)), CurVariants(k),
          LAMBDA n, v : Entity(k, n, v))
DesColls(k) ==
    Colls(NameSeqs(NamesOf(k)), DesVariants(k),
          LAMBDA n, v : Entity(k, n, v))

Versions == {80400, 90000}

\* Procedures of schema 'public' without arguments.  A catalog function has
\* a source and (from version 9.2 on) a leakproof flag, which is an
\* attribute of the entity only when it is true; an aggregate has its
\* source deleted.  returns is None (deleted) or the written return type: an
\* optional SETOF word and the parts of the type name around its dot.
Proc(sch, name, args, v) ==
    [key |-> <<sch, name, args>>, cls |-> v.cls, name |-> name,
     owner |-> v.owner, description |-> NULL, oldname |-> v.oldname,
     dropped |-> ABSENT, source |-> v.source, leakproof |-> v.leakproof,
     dep_type |-> None,
     language |-> IF v.cls = "Aggregate" THEN "internal" ELSE "sql",
     cost |-> None, rows |-> None,
     returns |-> IF v.cls = "Aggregate" THEN None ELSE Some(<<"void">>),
     dependent_table |-> None]

CurProcVariants ==
    [cls : {"Function"}, owner : {"o1"}, oldname : {ABSENT},
     source : {"s1"}, leakproof : {ABSENT, "True"}]
    \cup [cls : {"Aggregate"}, owner : {"o1"}, oldname : {ABSENT},
          source : {ABSENT}, leakproof : {ABSENT}]
DesProcVariants ==
    [cls : {"Function"}, owner : {NULL, "o1", "o2"}, oldname : {ABSENT, "a"},
     source : {"s1", "s2"}, leakproof : {ABSENT, "True"}]
    \cup [cls : {"Aggregate"}, owner : {NULL, "o1", "o2"},
          oldname : {ABSENT, "a"},
          source : {ABSENT}, leakproof : {ABSENT}]

CurProcs ==
    Colls(SortedNameSeqs(Names), CurProcVariants,
          LAMBDA n, v : Proc("public", n, "", v))
DesProcs ==
    Colls(NameSeqs(Names), DesProcVariants,
          LAMBDA n, v : Proc("public", n, "", v))
\* Desired procedures under keys the current side does not hold
NewProcVariants ==
    [cls : {"Function"}, owner : {NULL}, oldname : {ABSENT},
     source : {"s1"}, leakproof : {ABSENT}]
    \cup [cls : {"Aggregate"}, owner : {NULL}, oldname : {ABSENT},
          source : {ABSENT}, leakproof : {ABSENT}]
NewProcs ==
    Colls({<<"f", "g">>, <<"g", "f">>}, NewProcVariants,
          LAMBDA n, v : Proc("public", n, "", v))

InitSimple ==
    /\ kind \in SimpleKinds
    /\ version \in IF kind = "language" THEN Versions ELSE {90000}
    /\ cur \in CurColls(kind)
    /\ des \in DesColls(kind)
    /\ curf = <<>> /\ desf = <<>>
    /\ cols = <<>> /\ dcols = <<>>

\* Types.  refs holds the procedure references of a base type by role (the
\* attributes input, output and OPT_FUNCS), each <<name>> or <<schema, name>>.
Roles == {"input", "output", "receive", "send", "typmod_in", "typmod_out",
          "analyze"}
NoRefs == [r \in Roles |-> None]

DbType(sch, name, v) ==
    [key |-> <<sch, name>>, cls |-> v.cls, name |-> name, owner |-> v.owner,
     description |-> NULL, oldname |-> v.oldname, dropped |-> ABSENT,
     attributes |-> None, check_constraints |-> None, dep_funcs |-> None,
     refs |-> v.refs]

Attribute(name, type) ==
    [name |-> name, type |-> type, oldname |-> ABSENT, dropped |-> ABSENT]

\* Enums and composites of schema 'public'; attrs is the attribute list the
\* column collection holds for a composite
CurTypeVariants ==
    [cls : {"Enum"}, owner : {"o1"}, oldname : {ABSENT}, attrs : {<<>>},
     refs : {NoRefs}]
    \cup [cls : {"Composite"}, owner : {"o1"}, oldname : {ABSENT},
          attrs : {<<Attribute("x", "integer")>>}, refs : {NoRefs}]
DesTypeVariants ==
    [cls : {"Enum"}, owner : {NULL, "o1", "o2"},
     oldname : {ABSENT} \cup Names, attrs : {<<>>}, refs : {NoRefs}]
    \cup [cls : {"Composite"}, owner : {"o1", "o2"},
          oldname : {ABSENT} \cup Names,
          attrs : {<<Attribute("x", "integer")>>,
                   <<Attribute("x", "text")>>},
          refs : {NoRefs}]

TypesOf(sch, ns, vs) == [i \in 1..Len(ns) |-> DbType(sch, ns[i], vs[i])]
\* The types TypeDict.from_map builds: its setattr loop leaves the list of
\* the map on a composite as its attribute 'attributes', which link_refs
\* replaces by the list of the column collection
MapTypesOf(sch, ns, vs) ==
    [i \in 1..Len(ns) |->
        IF vs[i].cls = "Composite"
        THEN [DbType(sch, ns[i], vs[i]) EXCEPT
                !.attributes = Some(vs[i].attrs)]
        ELSE DbType(sch, ns[i], vs[i])]
ColumnsOf(sch, ns, vs) ==
    SelectSeq([i \in 1..Len(ns) |->
                  [key |-> <<sch, ns[i]>>, cls |-> vs[i].cls,
                   attrs |-> vs[i].attrs]],
              LAMBDA c : c.cls = "Composite")

InitType1 ==
    /\ kind = "type"
    /\ version = 90200
    /\ \E ns \in SortedNameSeqs(Names) :
         \E vs \in [1..Len(ns) -> CurTypeVariants] :
            /\ cur = TypesOf("public", ns, vs)
            /\ cols = ColumnsOf("public", ns, vs)
    /\ \E ns \in NameSeqs(Names) :
         \E vs \in [1..Len(ns) -> DesTypeVariants] :
            /\ des = MapTypesOf("public", ns, vs)
            /\ dcols = ColumnsOf("public", ns, vs)
    /\ curf = <<>> /\ desf = <<>>

\* A base type t of schema s1 whose procedures are overloads of s1.f, next
\* to an enum u and a plain function g
Sigs == <<"cstring", "cstring, oid, integer", "cstring[]", "integer",
          "internal", "s1.t">>
AllSigs == {Sigs[i] : i \in 1..Len(Sigs)}
SigSets == {AllSigs, AllSigs \ {"cstring"}, {"cstring", "s1.t"}, {"cstring"}}
OptRoleSets == {{}, {"typmod_in", "typmod_out", "analyze"},
                {"receive", "send", "typmod_in", "typmod_out", "analyze"}}

RefsOf(R) ==
    [r \in Roles |-> IF r \in {"input", "output"} \cup R
                     THEN Some(<<"f">>) ELSE None]
BaseT(R, owner) ==
    DbType("s1", "t", [cls |-> "BaseType", owner |-> owner,
                       oldname |-> ABSENT, refs |-> RefsOf(R)])
EnumU(owner) ==
    DbType("s1", "u", [cls |-> "Enum", owner |-> owner, oldname |-> ABSENT,
                       refs |-> NoRefs])
PlainF(name, args, owner, source, leakproof) ==
    Proc("s1", name, args, [cls |-> "Function", owner |-> owner,
                            oldname |-> ABSENT, source |-> source,
                            leakproof |-> leakproof])
Overloads(S, owner, source, leakproof) ==
    SelectSeq([i \in 1..Len(Sigs) |->
                  PlainF("f", Sigs[i], owner, source, leakproof)],
              LAMBDA e : e.key[3] \in S)

CurTypes2 ==
    {<<>>, <<EnumU("o1")>>}
    \cup UNION {{<<BaseT(R, "o1")>>, <<BaseT(R, "o1"), EnumU("o1")>>} :
                R \in OptRoleSets}
DesTypes2 ==
    {<<>>, <<EnumU(NULL)>>}
    \cup UNION {{<<BaseT(R, NULL)>>, <<BaseT(R, NULL), EnumU(NULL)>>,
                 <<EnumU(NULL), BaseT(R, NULL)>>} : R \in OptRoleSets}
CurProcs2 ==
    UNION {{Overloads(S, "o1", "s1", ABSENT),
            Overloads(S, "o1", "s1", ABSENT)
                \o <<PlainF("g", "", "o1", "s1", ABSENT)>>} : S \in SigSets}
DesProcs2 ==
    UNION {{Overloads(S, NULL, src, ABSENT),
            Overloads(S, NULL, src, ABSENT)
                \o <<PlainF("g", "", NULL, src, ABSENT)>>} :
                    S \in SigSets, src \in {"s1", "s2"}}

InitType2 ==
    /\ kind = "type"
    /\ version = 90200
    /\ cur \in CurTypes2 /\ des \in DesTypes2
    /\ curf \in CurProcs2 /\ desf \in DesProcs2
    /\ cols = <<>> /\ dcols = <<>>

InitProc ==
    /\ kind = "proc"
    /\ version = 90200
    /\ cur = <<>> /\ des = <<>>
    /\ cols = <<>> /\ dcols = <<>>
    /\ curf \in CurProcs
    /\ desf \in DesProcs \cup NewProcs

Init ==
    /\ (InitSimple \/ InitProc \/ InitType1 \/ InitType2)
    /\ pc = "start"
    /\ stmts = <<>> /\ drops = <<>> /\ fstmts = <<>> /\ fdrops = <<>>
    /\ err = NoErr
    /\ cur0 = cur /\ curf0 = curf
    /\ inobjs = <<>> /\ constrs = <<>> /\ tables = <<>> /\ langs = {}
    /\ owned = <<>>

-----------------------------------------------------------------------------
(* Actions: one per method call of a run *)

\* r is the [cur, out, err] a diff_map of the collection pair produced
DiffMapDone(r) ==
    /\ cur' = r.cur
    /\ err' = r.err
    /\ stmts' = IF Raised(r) THEN <<>> ELSE r.out
    /\ pc' = IF Raised(r) THEN "failed" ELSE "diffed"
    /\ UNCHANGED <<aux, kind, version, des, curf, desf, cols, dcols, drops,
                   fstmts, fdrops, cur0, curf0>>

DropDone(out) ==
    /\ drops' = out
    /\ pc' = "dropped"
    /\ UNCHANGED <<aux, kind, version, cur, des, curf, desf, cols, dcols, stmts,
                   fstmts, fdrops, err, cur0, curf0>>

SchemaDiffMap ==
    pc = "start" /\ kind = "schema"
    /\ DiffMapDone(SchemaDict_diff_map(cur, des))
SchemaDrop ==
    pc = "diffed" /\ kind = "schema" /\ DropDone(SchemaDict_drop(cur))

LanguageDiffMap ==
    pc = "start" /\ kind = "language"
    /\ DiffMapDone(LanguageDict_diff_map(cur, des, version))
LanguageDrop ==
    pc = "diffed" /\ kind = "language" /\ DropDone(LanguageDict_drop(cur))

FdwDiffMap ==
    pc = "start" /\ kind = "fdw"
    /\ DiffMapDone(ForeignDataWrapperDict_diff_map(cur, des))
FdwDrop ==
    pc = "diffed" /\ kind = "fdw"
    /\ DropDone(ForeignDataWrapperDict_drop(cur))

ServerDiffMap ==
    pc = "start" /\ kind = "server"
    /\ DiffMapDone(ForeignServerDict_diff_map(cur, des))
ServerDrop ==
    pc = "diffed" /\ kind = "server" /\ DropDone(ForeignServerDict_drop(cur))

UserMapDiffMap ==
    pc = "start" /\ kind = "usermap"
    /\ DiffMapDone(UserMappingDict_diff_map(cur, des))

FTableDiffMap ==
    pc = "start" /\ kind = "ftable"
    /\ DiffMapDone(ForeignTableDict_diff_map(cur, des))

\* The link_refs call on the current side, then on the desired side
TypeLinkRefsDb ==
    /\ kind = "type" /\ pc = "start"
    /\ LET r == TypeDict_link_refs(cur, cols, constrs, curf)
       IN  /\ cur' = r.types /\ curf' = r.funcs
           /\ cur0' = r.types /\ curf0' = r.funcs
           /\ err' = r.err
           /\ pc' = IF Raised(r) THEN "linkfailed" ELSE "linkdb"
    /\ UNCHANGED <<aux, kind, version, des, desf, cols, dcols, stmts, drops,
                   fstmts, fdrops>>

TypeLinkRefsNdb ==
    /\ kind = "type" /\ pc = "linkdb"
    /\ LET r == TypeDict_link_refs(des, dcols, <<>>, desf)
       IN  /\ des' = r.types /\ desf' = r.funcs
           /\ err' = r.err
           /\ pc' = IF Raised(r) THEN "linkfailed" ELSE "linked"
    /\ UNCHANGED <<aux, kind, version, cur, curf, cols, dcols, stmts, drops,
                   fstmts, fdrops, cur0, curf0>>

TypeDiffMap ==
    /\ kind = "type" /\ pc = "linked"
    /\ LET r == TypeDict_diff_map(cur, des, desf)
       IN  /\ cur' = r.cur
           /\ err' = r.err
           /\ stmts' = IF Raised(r) THEN <<>> ELSE r.out
           /\ pc' = IF Raised(r) THEN "failed" ELSE "tdiffed"
    /\ UNCHANGED <<aux, kind, version, des, curf, desf, cols, dcols, drops,
                   fstmts, fdrops, cur0, curf0>>

TypeDrop ==
    /\ kind = "type" /\ pc = "diffed"
    /\ LET r == TypeDict_drop(cur, curf)
       IN  cur' = r.cur /\ curf' = r.funcs /\ drops' = r.out
    /\ pc' = "tdropped"
    /\ UNCHANGED <<aux, kind, version, des, desf, cols, dcols, stmts,
                   fstmts, fdrops, err, cur0, curf0>>

ProcDiffMap ==
    /\ \/ kind = "proc" /\ pc = "start"
       \/ kind = "type" /\ pc = "tdiffed"
    /\ LET r == ProcDict_diff_map(curf, desf)
       IN  /\ curf' = r.cur
           /\ err' = r.err
           /\ fstmts' = IF Raised(r) THEN <<>> ELSE r.out
           /\ pc' = IF Raised(r) THEN "failed" ELSE "diffed"
    /\ UNCHANGED <<aux, kind, version, cur, des, desf, cols, dcols, stmts, drops,
                   fdrops, cur0, curf0>>

ProcDrop ==
    /\ \/ kind = "proc" /\ pc = "diffed"
       \/ kind = "type" /\ pc = "tdropped"
    /\ LET r == ProcDict_drop(curf)
       IN  curf' = r.cur /\ fdrops' = r.out
    /\ pc' = "dropped"
    /\ UNCHANGED <<aux, kind, version, cur, des, desf, cols, dcols, stmts,
                   drops, fstmts, err, cur0, curf0>>

Next ==
    \/ SchemaDiffMap \/ SchemaDrop
    \/ LanguageDiffMap \/ LanguageDrop
    \/ FdwDiffMap \/ FdwDrop
    \/ ServerDiffMap \/ ServerDrop
    \/ UserMapDiffMap
    \/ FTableDiffMap
    \/ TypeLinkRefsDb \/ TypeLinkRefsNdb
    \/ TypeDiffMap \/ TypeDrop
    \/ ProcDiffMap \/ ProcDrop

Spec == Init /\ [][Next]_vars

\* Linking alone: one base type t, in schema s1 or public, whose procedure
\* references all name f, against every set of overloads of f in that schema
LinkSigs == <<"cstring", "cstring, oid, integer", "cstring[]", "integer",
              "internal", "s1.t", "t">>
InitLink ==
    /\ kind = "type"
    /\ version = 90200
    /\ \E sch \in {"s1", "public"} :
       \E R \in SUBSET {OPT_FUNCS[i] : i \in 1..Len(OPT_FUNCS)},
          inref \in {<<"f">>, <<sch, "f">>},
          S \in SUBSET {LinkSigs[i] : i \in 1..Len(LinkSigs)} :
        /\ cur = <<DbType(sch, "t",
                     [cls |-> "BaseType", owner |-> "o1", oldname |-> ABSENT,
                      refs |-> [RefsOf(R) EXCEPT !["input"] = Some(inref)]])>>
        /\ curf = SelectSeq(
                    [i \in 1..Len(LinkSigs) |->
                        Proc(sch, "f", LinkSigs[i],
                             [cls |-> "Function", owner |-> "o1",
                              oldname |-> ABSENT, source |-> "s1",
                              leakproof |-> ABSENT])],
                    LAMBDA e : e.key[3] \in S)
    /\ des = <<>> /\ desf = <<>>
    /\ cols = <<>> /\ dcols = <<>>
    /\ pc = "start"
    /\ stmts = <<>> /\ drops = <<>> /\ fstmts = <<>> /\ fdrops = <<>>
    /\ err = NoErr
    /\ cur0 = cur /\ curf0 = curf
    /\ inobjs = <<>> /\ constrs = <<>> /\ tables = <<>> /\ langs = {}
    /\ owned = <<>>

NextLink == TypeLinkRefsDb

SpecLink == InitLink /\ [][NextLink]_vars

-----------------------------------------------------------------------------
(* What the properties speak about *)

\* The collection pair a run reconciles first and what its diff_map returned
C0 == IF kind = "proc" THEN curf0 ELSE cur0
C == IF kind = "proc" THEN curf ELSE cur
D == IF kind = "proc" THEN desf ELSE des
Out == IF kind = "proc" THEN fstmts ELSE stmts

\* diff_map of that pair has run (and returned or raised)
DiffMapRan ==
    IF kind = "type"
    THEN pc \in {"tdiffed", "diffed", "tdropped", "dropped", "failed"}
    ELSE pc \in {"diffed", "dropped", "failed"}
DiffMapReturned == DiffMapRan /\ pc # "failed"

\* The key the oldname of a desired entity points to
OldKey(d) ==
    IF d.cls \in {"Function", "Aggregate"}
    THEN <<d.key[1], d.oldname, d.key[3]>>
    ELSE Prefix(d.key) \o <<d.oldname>>

IsStmt(s, op, e) == s.op = op /\ s.obj = e.key /\ s.cls = e.cls
Count(seq, P(_)) == Cardinality({i \in 1..Len(seq) : P(seq[i])})
HasStmt(groups, op, e) ==
    \E i \in 1..Len(Flatten(groups)) : IsStmt(Flatten(groups)[i], op, e)
AlterOps == {"owner", "alter", "comment"}

\* The desired entity d equals the current entity c but for the owner
OwnerChanged(c, d) ==
    /\ d.cls = c.cls
    /\ d.owner \notin {NULL, c.owner}
    /\ d.description = c.description
    /\ IF kind \in SimpleKinds THEN d.options = c.options /\ d.ext = c.ext
       ELSE IF kind = "type" THEN d.attributes = c.attributes
       ELSE d.source = c.source /\ d.leakproof = c.leakproof

\* C1 (as written): with current key A and a desired entity named B whose
\* oldname is A and whose owner alone differs, diff_map returns exactly a
\* rename statement followed by one alter statement, and A is gone from the
\* current collection.
C1_RenameThenAlter ==
    (/\ DiffMapReturned
     /\ Len(C0) = 1 /\ Len(D) = 1
     /\ D[1].oldname = C0[1].name /\ D[1].key # C0[1].key
     /\ OwnerChanged(C0[1], D[1]))
    => LET out == Flatten(Out)
       IN  /\ Len(out) = 2
           /\ IsStmt(out[1], "rename", C0[1]) /\ out[1].val = D[1].name
           /\ out[2].op \in AlterOps
           /\ ~Has(C, C0[1].key)

\* C2 (as written): for every kind, a desired entity whose key is absent
\* from current and whose oldname names a key present in current makes
\* diff_map complete without error, emit exactly one rename statement for
\* that entity and no create statement, and remove the old key from current.
C2_RenameCompletes ==
    \A i \in 1..Len(D) :
        (/\ DiffMapRan
         /\ D[i].oldname # ABSENT
         /\ ~Has(C0, D[i].key) /\ Has(C0, OldKey(D[i]))
         /\ \A j \in 1..Len(D) : j # i => D[j].oldname = ABSENT)
        => /\ pc # "failed"
           /\ Count(Flatten(Out),
                    LAMBDA s : IsStmt(s, "rename", Get(C0, OldKey(D[i])))
                               /\ s.val = D[i].name) = 1
           /\ ~HasStmt(Out, "create", D[i])
           /\ ~Has(C, OldKey(D[i]))

\* C3 (as written): for schemas, languages, types, wrappers, servers, user
\* mappings and foreign tables, a desired entity absent from current whose
\* oldname is no key of current makes diff_map abort with a KeyError that
\* reports the old and the new name, and no statement list is returned.
C3_UnresolvedOldname ==
    \A i \in 1..Len(D) :
        (/\ kind \in SimpleKinds \cup {"type"}
         /\ DiffMapRan
         /\ D[i].oldname # ABSENT
         /\ ~Has(C0, D[i].key) /\ ~Has(C0, OldKey(D[i])))
        => /\ pc = "failed"
           /\ err.exc = "KeyError"
           /\ \E j \in 1..Len(D) :
                /\ D[j].oldname # ABSENT
                /\ err.names = {D[j].oldname, D[j].name}
           /\ Out = <<>>

\* The desired entity d has the attribute values of the current entity c
Same(c, d) ==
    /\ d.cls = c.cls
    /\ d.owner = c.owner
    /\ d.description = c.description
    /\ d.oldname = ABSENT
    /\ CASE c.cls \in {"Function", "Aggregate"} ->
                d.source = c.source /\ d.leakproof = c.leakproof
         [] c.cls \in {"Enum", "Composite", "BaseType"} ->
                d.attributes = c.attributes /\ d.refs = c.refs
         [] OTHER -> d.options = c.options /\ d.ext = c.ext
EqualColls(c0, d) ==
    /\ KeySet(c0) = KeySet(d)
    /\ \A k \in KeySet(c0) : Same(Get(c0, k), Get(d, k))

\* The run has made its last call
RunDone ==
    \/ pc = "dropped"
    \/ kind \in {"usermap", "ftable"} /\ pc = "diffed"
AllStmts ==
    Flatten(stmts) \o Flatten(fstmts) \o Flatten(drops) \o Flatten(fdrops)

\* C4 (as written): reconciling a current collection against a desired
\* collection with the same keys and the same attribute values, drop pass
\* included, yields no statement at all once empty groups are flattened away.
C4_Idempotence ==
    (RunDone /\ EqualColls(cur0, des) /\ EqualColls(curf0, desf))
    => AllStmts = <<>>

\* C5 (as written): for every kind, diff_map never returns a drop statement;
\* drop statements appear only in the output of the later _drop pass.
C5_NoDropInDiffMap ==
    \A i \in 1..Len(Flatten(stmts) \o Flatten(fstmts)) :
        (Flatten(stmts) \o Flatten(fstmts))[i].op # "drop"

\* The class of procedure a statement of ProcDict.diff_map was emitted for:
\* the class of the desired procedure the loop was at, which is the one
\* under the key of the statement
EmittedFor(s) == IF Has(desf, s.obj) THEN Get(desf, s.obj).cls ELSE s.cls

\* C9: in the output of ProcDict.diff_map every statement emitted for a plain
\* function precedes every statement emitted for an aggregate, and in the
\* output of ProcDict._drop every aggregate's drop precedes every function's
\* drop, whatever the order of the keys.
C9_ProcOrder ==
    /\ \A i, j \in 1..Len(Flatten(fstmts)) :
            i < j => ~(/\ EmittedFor(Flatten(fstmts)[i]) = "Aggregate"
                       /\ EmittedFor(Flatten(fstmts)[j]) = "Function")
    /\ \A i, j \in 1..Len(Flatten(fdrops)) :
            i < j => ~(/\ Flatten(fdrops)[i].cls = "Function"
                       /\ Flatten(fdrops)[j].cls = "Aggregate")

\* A function whose key precedes that of an aggregate, both dropped, the
\* aggregate first; and a new aggregate whose key precedes that of a new
\* function in the map, both created, the function first
C9_Witness ==
    /\ kind = "proc" /\ pc = "dropped"
    /\ Len(curf) = 2 /\ Len(desf) = 2
    /\ curf[1].cls = "Function" /\ curf[2].cls = "Aggregate"
    /\ desf[1].cls = "Aggregate" /\ desf[2].cls = "Function"
    /\ \E i, j \in 1..Len(Flatten(fdrops)) :
        /\ i < j
        /\ IsStmt(Flatten(fdrops)[i], "drop", curf[2])
        /\ IsStmt(Flatten(fdrops)[j], "drop", curf[1])
    /\ \E i, j \in 1..Len(Flatten(fstmts)) :
        /\ i < j
        /\ IsStmt(Flatten(fstmts)[i], "create", desf[2])
        /\ IsStmt(Flatten(fstmts)[j], "create", desf[1])

\* Entities diff_map never marks: the schemas 'public' and 'pg_catalog', and
\* the language 'plpgsql' from version 9.0 on
Exempt(e) ==
    \/ e.cls = "Schema" /\ e.name \in {"public", "pg_catalog"}
    \/ e.cls = "Language" /\ e.name = "plpgsql" /\ version >= 90000

\* C6 (as written): after diff_map, the _drop pass of schemas, languages,
\* wrappers, servers, types and procedures emits a drop statement for an
\* entity that is no base-type support procedure if and only if the entity
\* is in current, absent from desired and not consumed by a rename.
C6_DropIffAbsent ==
    pc = "dropped"
    => /\ \A i \in 1..Len(cur0) :
            HasStmt(drops, "drop", cur0[i])
            <=> Has(cur, cur0[i].key) /\ ~Has(des, cur0[i].key)
       /\ \A i \in 1..Len(curf0) :
            curf0[i].dep_type = None
            => (HasStmt(fdrops, "drop", curf0[i])
                <=> ~Has(desf, curf0[i].key))

\* C6 (amended): the _drop pass emits a drop statement for such an entity if
\* and only if it carries the dropped marker, whatever its value, and
\* diff_map sets the marker exactly on the entities in current, absent from
\* desired and not consumed by a rename, other than the schemas 'public' and
\* 'pg_catalog' and, from version 9.0 on, the language 'plpgsql'.
C6_DropIffMarked ==
    pc = "dropped"
    => /\ \A i \in 1..Len(cur0) :
            LET e == cur0[i]
                here == Has(cur, e.key)
            IN  /\ HasStmt(drops, "drop", e)
                   <=> here /\ Get(cur, e.key).dropped # ABSENT
                /\ HasStmt(drops, "drop", e)
                   <=> here /\ ~Has(des, e.key) /\ ~Exempt(e)
       /\ \A i \in 1..Len(curf0) :
            LET e == curf0[i]
            IN  e.dep_type = None
                => /\ HasStmt(fdrops, "drop", e)
                      <=> Get(curf, e.key).dropped # ABSENT
                   /\ HasStmt(fdrops, "drop", e) <=> ~Has(desf, e.key)

\* A never-marked schema absent from desired next to a dropped schema
C6_Witness ==
    /\ pc = "dropped" /\ kind = "schema"
    /\ \E i, j \in 1..Len(cur0) :
        /\ Exempt(cur0[i]) /\ ~Has(des, cur0[i].key)
        /\ ~HasStmt(drops, "drop", cur0[i])
        /\ HasStmt(drops, "drop", cur0[j])

SupportRoles == {"typmod_in", "typmod_out", "analyze"}
TypeDropRan == kind = "type" /\ pc \in {"tdropped", "dropped"}

\* C7 (as written): a dropped base type with two support procedures, its
\* input and output functions, gets its drop statement followed immediately
\* by a drop statement for each of these procedures.
C7_DropThenSupportProcs ==
    \A n \in 1..Len(cur) :
        (/\ TypeDropRan
         /\ cur[n].cls = "BaseType" /\ cur[n].dropped # ABSENT
         /\ Len(cur[n].dep_funcs[1]) = 2)
        => LET fl == Flatten(drops)
               dep == cur[n].dep_funcs[1]
           IN  \E i \in 1..Len(fl) :
                /\ IsStmt(fl[i], "drop", cur[n])
                /\ i + 2 <= Len(fl)
                /\ fl[i + 1].op = "drop" /\ fl[i + 2].op = "drop"
                /\ {fl[i + 1].obj, fl[i + 2].obj}
                   = {DepGet(dep, "input"), DepGet(dep, "output")}

\* C7 (amended): a dropped base type gets DROP TYPE ... CASCADE followed
\* immediately by one drop statement for each of its typmod_in, typmod_out
\* and analyze procedures, in the order they were linked, before any other
\* type's drop; its input and output procedures get no drop statement.
C7_BaseTypeDropOrder ==
    \A n \in 1..Len(cur) :
        (/\ TypeDropRan
         /\ cur[n].cls = "BaseType" /\ cur[n].dropped # ABSENT)
        => LET fl == Flatten(drops)
               dep == cur[n].dep_funcs[1]
               sup == SelectSeq(dep, LAMBDA d : d[1] \in SupportRoles)
           IN  /\ \E i \in 1..Len(fl) :
                    /\ IsStmt(fl[i], "drop", cur[n])
                    /\ fl[i].val = "CASCADE"
                    /\ i + Len(sup) <= Len(fl)
                    /\ \A j \in 1..Len(sup) :
                        /\ fl[i + j].op = "drop"
                        /\ fl[i + j].cls = "Function"
                        /\ fl[i + j].obj = sup[j][2]
                    /\ i + Len(sup) < Len(fl)
                       => fl[i + Len(sup) + 1].cls # "Function"
               /\ \A k \in 1..Len(fl) :
                    fl[k].obj \notin {DepGet(dep, "input"),
                                      DepGet(dep, "output")}

\* A dropped base type with typmod and analyze procedures, and a second
\* type dropped after it
C7_Witness ==
    /\ TypeDropRan
    /\ \E n, m \in 1..Len(cur) :
        /\ cur[n].cls = "BaseType" /\ cur[n].dropped # ABSENT
        /\ DepHas(cur[n].dep_funcs[1], "typmod_in")
        /\ DepHas(cur[n].dep_funcs[1], "analyze")
        /\ n < m /\ cur[m].dropped # ABSENT
        /\ HasStmt(drops, "drop", cur[m])

\* C8: a function linked as support procedure of a base type gets no drop
\* statement from ProcDict._drop and no create statement from
\* ProcDict.diff_map; a create statement of a function in TypeDict.diff_map
\* output lies inside the create sequence of the base type it is linked to,
\* and a drop statement of a function in TypeDict._drop output follows the
\* drop of the base type it is linked to.
C8_SupportProcNotStandalone ==
    kind = "type" =>
    /\ \A i \in 1..Len(Flatten(fdrops)) :
            Get(curf, Flatten(fdrops)[i].obj).dep_type = None
    /\ \A i \in 1..Len(Flatten(fstmts)) :
            LET s == Flatten(fstmts)[i]
            IN  s.op = "create"
                => IF s.val = "OR REPLACE"
                   THEN Get(curf, s.obj).dep_type = None
                   ELSE Get(desf, s.obj).dep_type = None
    /\ \A g \in 1..Len(stmts) : \A k \in 1..Len(stmts[g]) :
            (stmts[g][k].op = "create" /\ stmts[g][k].cls = "Function")
            => /\ stmts[g][1].op = "create" /\ stmts[g][1].val = "shell"
               /\ stmts[g][1].cls = "BaseType"
               /\ Get(desf, stmts[g][k].obj).dep_type
                  = Some(stmts[g][1].obj)
    /\ \A i \in 1..Len(Flatten(drops)) :
            LET fl == Flatten(drops)
            IN  fl[i].cls = "Function"
                => \E j \in 1..(i - 1) :
                    /\ fl[j].cls = "BaseType" /\ fl[j].op = "drop"
                    /\ Get(curf, fl[i].obj).dep_type = Some(fl[j].obj)
                    /\ \A m \in (j + 1)..i : fl[m].cls = "Function"

\* Marked support procedures that ProcDict._drop passed over while it
\* dropped a plain function
C8_Witness ==
    /\ kind = "type" /\ pc = "dropped"
    /\ \E i \in 1..Len(curf) :
        curf[i].dep_type # None /\ curf[i].dropped # ABSENT
    /\ fdrops # <<>>

\* C10: link_refs binds each role of a base type to the overload with the
\* role's argument signature: input to 'cstring', or to 'cstring, oid,
\* integer' when no 'cstring' overload exists; output and send to the type's
\* qualified name; receive and analyze to 'internal'; typmod_in to
\* 'cstring[]'; typmod_out to 'integer'.  A role the type does not declare
\* is not bound.
C10_SignatureByRole ==
    \A n \in 1..Len(cur) :
        (pc = "linkdb" /\ cur[n].cls = "BaseType")
        => LET t == cur[n]
               dep == t.dep_funcs[1]
               own == IF t.key[1] = "public" THEN "t" ELSE "s1.t"
               bound(role, sig) ==
                    IF role \in {"input", "output"} \/ t.refs[role] # None
                    THEN /\ DepHas(dep, role)
                         /\ DepGet(dep, role) = <<t.key[1], "f", sig>>
                         /\ Get(curf, DepGet(dep, role)).dep_type
                            = Some(t.key)
                    ELSE ~DepHas(dep, role)
           IN  /\ bound("input",
                        IF Has(curf, <<t.key[1], "f", "cstring">>)
                        THEN "cstring" ELSE "cstring, oid, integer")
               /\ bound("output", own)
               /\ bound("send", own)
               /\ bound("receive", "internal")
               /\ bound("analyze", "internal")
               /\ bound("typmod_in", "cstring[]")
               /\ bound("typmod_out", "integer")

\* receive and typmod_in resolved among overloads that hold both an
\* 'internal' and a 'cstring[]' procedure of the shared name
C10_Witness ==
    /\ pc = "linkdb" /\ Len(cur) = 1 /\ cur[1].cls = "BaseType"
    /\ Has(curf, <<cur[1].key[1], "f", "internal">>)
    /\ Has(curf, <<cur[1].key[1], "f", "cstring[]">>)
    /\ DepHas(cur[1].dep_funcs[1], "receive")
    /\ DepHas(cur[1].dep_funcs[1], "typmod_in")
    /\ DepGet(cur[1].dep_funcs[1], "receive")[3] = "internal"
    /\ DepGet(cur[1].dep_funcs[1], "typmod_in")[3] = "cstring[]"

-----------------------------------------------------------------------------
(* Linking: the link_refs pass over the collections of the current side *)

PlainFunction == [cls |-> "Function", owner |-> "o1", oldname |-> ABSENT,
                  source |-> "s1", leakproof |-> ABSENT]
PlainEntity == [owner |-> "o1", oldname |-> ABSENT, options |-> None,
                ext |-> ABSENT]

\* Languages a function may be written in, and those of extensions, which
\* are installed but kept out of the language collection
RefLangs == {"sql", "plperl", "plpgsql", "plv8"}
ExtLangs == {"plv8"}
LangFunc(name, lang) ==
    [Proc("public", name, "", PlainFunction) EXCEPT !.language = lang]

Wrapper(name) == Entity("fdw", name, PlainEntity)
Server(fdw, name) ==
    [Entity("server", name, PlainEntity) EXCEPT !.key = <<fdw, name>>]
UserMap(fdw, srv, name) ==
    [Entity("usermap", name, [PlainEntity EXCEPT !.owner = NULL])
        EXCEPT !.key = <<fdw, srv, name>>]

\* A constraint is [key, target, cls]; target is ABSENT on a table's
Constraint(typ, name, target, cls) ==
    [key |-> <<"public", typ, name>>, target |-> target, cls |-> cls]
ConstraintVariants ==
    [typ : Names, target : {"d", ABSENT},
     cls : {"CheckConstraint", "ForeignKey"}]
DomainD(name) ==
    DbType("public", name, [cls |-> "Domain", owner |-> "o1",
                            oldname |-> ABSENT, refs |-> NoRefs])

Table(sch, name, cls) ==
    [key |-> <<sch, name>>, cls |-> cls, dependent_funcs |-> None]
\* Written return types: a table or scalar name, qualified or not, with or
\* without SETOF
ReturnTypes == {<<"a">>, <<"s1", "a">>, <<"SETOF", "a">>,
                <<"setof", "public", "a">>, <<"integer">>}
RetFunc(sch, name, returns) ==
    [Proc(sch, name, "", PlainFunction) EXCEPT !.returns = returns]

\* Procedures that share the name f: overloads in schema public and a
\* function of schema s1, in the order of the catalog query; an aggregate is
\* in language internal
OverloadKeys == <<(<<"public", "f", "">>), <<"public", "f", "integer">>,
                  <<"s1", "f", "">>>>
OverloadVariants ==
    [cls : {"Function"}, lang : {"plperl", "plpgsql", "sql"}]
    \cup [cls : {"Aggregate"}, lang : {"internal"}]
LangProc(key, v) ==
    [Proc(key[1], key[2], key[3], [PlainFunction EXCEPT !.cls = v.cls])
        EXCEPT !.language = v.lang]
OverloadedProcs ==
    UNION {{[j \in 1..Len(ks) |-> LangProc(ks[j], vs[j])] :
                vs \in [1..Len(ks) -> OverloadVariants]} :
           ks \in {k \in SubSeqsOf(OverloadKeys) : Len(k) <= MaxObjs}}

InitRefsLanguage ==
    /\ kind = "language"
    /\ cur \in Colls(SortedNameSeqs({"plperl", "plpgsql"}), {PlainEntity},
                     LAMBDA n, v : Entity("language", n, v))
    /\ curf \in Colls(SortedNameSeqs(Names), RefLangs, LangFunc)
                \cup OverloadedProcs
    /\ \E X \in SUBSET ExtLangs : langs = X \cup {k[1] : k \in KeySet(cur)}
    /\ owned = <<>> /\ constrs = <<>> /\ tables = <<>>

InitRefsFdw ==
    /\ kind = "fdw"
    /\ cur \in Colls(SortedNameSeqs(Names), {PlainEntity},
                     LAMBDA n, v : Entity("fdw", n, v))
    /\ owned \in Colls(SortedNameSeqs({"t", "u"}), Names,
                       LAMBDA n, w : Server(w, n))
    /\ curf = <<>> /\ langs = {} /\ constrs = <<>> /\ tables = <<>>

InitRefsServer ==
    /\ kind = "server"
    /\ cur \in Colls(SortedNameSeqs(Names), {PlainEntity},
                     LAMBDA n, v : Server("w", n))
    /\ owned \in Colls(SortedNameSeqs({"t", "u"}), Names,
                       LAMBDA n, srv : UserMap("w", srv, n))
    /\ curf = <<>> /\ langs = {} /\ constrs = <<>> /\ tables = <<>>

\* The base type s1.t whose input function is written with a schema and
\* whose output and send functions are written without, and procedures named
\* f in both schemas, in the order of the catalog query
QualifiedT(inref, R) ==
    [BaseT(R, "o1") EXCEPT !.refs["input"] = Some(inref)]
BothSchemas ==
    <<Proc("public", "f", "cstring", PlainFunction),
      Proc("public", "f", "s1.t", PlainFunction),
      Proc("s1", "f", "cstring", PlainFunction),
      Proc("s1", "f", "s1.t", PlainFunction)>>

InitRefsType ==
    /\ kind = "type"
    /\ \/ /\ cur \in {<<>>, <<DomainD("a")>>, <<DomainD("a"), DomainD("b")>>}
                      \cup {<<BaseT(R, "o1")>> : R \in OptRoleSets}
          /\ constrs \in Colls(SortedNameSeqs({"t", "u"}), ConstraintVariants,
                         LAMBDA n, v : Constraint(v.typ, n, v.target, v.cls))
          /\ curf \in {Overloads(S, "o1", "s1", ABSENT) : S \in SigSets}
       \/ /\ cur \in {<<QualifiedT(inref, R)>> :
                        inref \in {<<"public", "f">>, <<"s1", "f">>},
                        R \in {{}, {"send"}}}
          /\ constrs = <<>>
          /\ curf \in SubSeqsOf(BothSchemas)
    /\ owned = <<>> /\ langs = {} /\ tables = <<>>

\* The types and the foreign tables of a database, each [key, cls], the
\* types first
SchemaObj(sch, name, cls) == [key |-> <<sch, name>>, cls |-> cls]
SchemaObjs ==
    {<<>>,
     <<SchemaObj("public", "a", "Domain"), SchemaObj("public", "b", "Enum"),
       SchemaObj("public", "a", "ForeignTable")>>,
     <<SchemaObj("public", "a", "Composite"), SchemaObj("s1", "a", "Domain"),
       SchemaObj("s1", "b", "ForeignTable")>>,
     <<SchemaObj("s1", "a", "BaseType")>>,
     <<SchemaObj("public", "c", "ForeignTable")>>}
DbTypesOf(objs) == SelectSeq(objs, LAMBDA o : o.cls # "ForeignTable")
FTablesOf(objs) == SelectSeq(objs, LAMBDA o : o.cls = "ForeignTable")

InitRefsSchema ==
    /\ kind = "schema"
    /\ cur \in Colls(SortedNameSeqs({"public", "s1"}), {PlainEntity},
                     LAMBDA n, v : Entity("schema", n, v))
    /\ tables \in {<<>>, <<Table("public", "a", "Table")>>,
                   <<Table("public", "a", "View"),
                     Table("s1", "a", "Table")>>,
                   <<Table("public", "a", "Sequence"),
                     Table("public", "b", "MaterializedView"),
                     Table("s1", "a", "View")>>}
    /\ curf \in Colls(SortedNameSeqs({"f", "g"}),
                      {"public", "s1"} \X ({None} \cup
                                           {Some(r) : r \in ReturnTypes}),
                      LAMBDA n, v : RetFunc(v[1], n, v[2]))
    /\ owned \in SchemaObjs
    /\ langs = {} /\ constrs = <<>>

InitRefs ==
    /\ (InitRefsLanguage \/ InitRefsFdw \/ InitRefsServer \/ InitRefsType
        \/ InitRefsSchema)
    /\ version = 90200
    /\ des = <<>> /\ desf = <<>> /\ cols = <<>> /\ dcols = <<>>
    /\ inobjs = <<>>
    /\ pc = "start"
    /\ stmts = <<>> /\ drops = <<>> /\ fstmts = <<>> /\ fdrops = <<>>
    /\ err = NoErr
    /\ cur0 = cur /\ curf0 = curf

\* r is the [cur, err] a link_refs of the collection cur produced
LinkDone(r) ==
    /\ cur' = r.cur
    /\ err' = r.err
    /\ pc' = IF Raised(r) THEN "linkfailed" ELSE "linked"

LanguageLinkRefs ==
    /\ kind = "language" /\ pc = "start"
    /\ LinkDone(LanguageDict_link_refs(cur, curf, langs))
    /\ UNCHANGED <<aux, kind, version, des, curf, desf, cols, dcols, stmts,
                   drops, fstmts, fdrops, cur0, curf0>>

FdwLinkRefs ==
    /\ kind = "fdw" /\ pc = "start"
    /\ LinkDone(ForeignDataWrapperDict_link_refs(cur, owned))
    /\ UNCHANGED <<aux, kind, version, des, curf, desf, cols, dcols, stmts,
                   drops, fstmts, fdrops, cur0, curf0>>

ServerLinkRefs ==
    /\ kind = "server" /\ pc = "start"
    /\ LinkDone(ForeignServerDict_link_refs(cur, owned))
    /\ UNCHANGED <<aux, kind, version, des, curf, desf, cols, dcols, stmts,
                   drops, fstmts, fdrops, cur0, curf0>>

SchemaLinkRefs ==
    /\ kind = "schema" /\ pc = "start"
    /\ LET r == SchemaDict_link_refs(cur, DbTypesOf(owned), tables,
                                     curf, FTablesOf(owned))
       IN  /\ LinkDone(r)
           /\ curf' = r.funcs
           /\ tables' = r.tables
    /\ UNCHANGED <<inobjs, constrs, langs, owned, kind, version, des, desf,
                   cols, dcols, stmts, drops, fstmts, fdrops, cur0, curf0>>

\* Function.create() of one function of the linked collection
LinkedFunctionCreate ==
    /\ kind = "schema" /\ pc = "linked"
    /\ \E i \in 1..Len(curf) :
        LET r == Function_create(curf[i], NULL, FALSE)
        IN  /\ stmts' = IF Raised(r) THEN stmts ELSE <<r.out>>
            /\ err' = r.err
            /\ pc' = IF Raised(r) THEN "createfailed" ELSE "created"
    /\ UNCHANGED <<aux, kind, version, cur, des, curf, desf, cols, dcols,
                   drops, fstmts, fdrops, cur0, curf0>>

NextRefs ==
    \/ LanguageLinkRefs \/ FdwLinkRefs \/ ServerLinkRefs
    \/ TypeLinkRefsDb
    \/ SchemaLinkRefs \/ LinkedFunctionCreate

SpecRefs == InitRefs /\ [][NextRefs]_vars

\* link_refs returned normally
LinkCompleted == pc \in {"linked", "linkdb"}

Attached(c, key, attr, k, objkey) ==
    /\ Has(c, key)
    /\ \E i \in 1..Len(Get(c, key).linked) :
            Get(c, key).linked[i] = <<attr, k, objkey>>

\* The dictionary attr of the entity has an item under the local key k
NameAttached(c, key, attr, k) ==
    /\ Has(c, key)
    /\ \E i \in 1..Len(Get(c, key).linked) :
            /\ Get(c, key).linked[i][1] = attr
            /\ Get(c, key).linked[i][2] = k

\* Every server is listed by its wrapper, every user mapping by its server
OwnedAttached ==
    /\ kind = "fdw" =>
        \A i \in 1..Len(owned) :
            Attached(cur, <<owned[i].key[1]>>, "servers", owned[i].key[2],
                     owned[i].key)
    /\ kind = "server" =>
        \A i \in 1..Len(owned) :
            Attached(cur, Prefix(owned[i].key), "usermaps", owned[i].key[3],
                     owned[i].key)

\* Every declared support procedure of a base type is bound to a procedure
\* of the collection, and every domain constraint has its domain
TypeRefsAttached ==
    kind = "type" =>
        /\ \A n \in 1..Len(cur) : cur[n].cls = "BaseType" =>
            \A role \in Roles :
                (role \in {"input", "output"} \/ cur[n].refs[role] # None)
                => /\ cur[n].dep_funcs # None
                   /\ DepHas(cur[n].dep_funcs[1], role)
                   /\ Has(curf, DepGet(cur[n].dep_funcs[1], role))
                   /\ Get(curf, DepGet(cur[n].dep_funcs[1], role)).dep_type
                        = Some(cur[n].key)
        /\ \A i \in 1..Len(constrs) : constrs[i].target = "d" =>
            /\ Has(cur, Prefix(constrs[i].key))
            /\ constrs[i].cls = "CheckConstraint" =>
                LET cc == Get(cur, Prefix(constrs[i].key)).check_constraints
                IN  /\ cc # None
                    /\ \E j \in 1..Len(cc[1]) : cc[1][j] = constrs[i].key[3]

\* C11 as written: whenever link_refs completes, every reference is attached:
\* each server to its wrapper, each user mapping to its server, each base
\* type's support procedure and each domain constraint to its type, and each
\* function has its name in the functions of its language.
C11_NoSilentUnattached ==
    LinkCompleted =>
        /\ OwnedAttached
        /\ TypeRefsAttached
        /\ kind = "language" =>
            \A i \in 1..Len(curf) :
                curf[i].cls = "Function" =>
                    NameAttached(cur, <<curf[i].language>>, "functions",
                                 curf[i].key[2])

\* C11: link_refs is all-or-error.  Whenever it completes, each server is
\* attached to its wrapper, each user mapping to its server, each declared
\* support procedure and each domain constraint to its type, and each
\* function has its name in the functions of its language, except a function
\* in one of the built-in languages sql, c and internal, or in a language that
\* is installed (named in langs) but not in the language collection: those
\* are passed over.  Whenever it does not complete, it has raised an error.
C11_LinkAllOrError ==
    /\ LinkCompleted =>
        /\ err = NoErr
        /\ OwnedAttached
        /\ TypeRefsAttached
        /\ kind = "language" =>
            \A i \in 1..Len(curf) :
                \/ curf[i].language \in {"sql", "c", "internal"}
                \/ /\ ~Has(cur, <<curf[i].language>>)
                   /\ curf[i].language \in langs
                \/ curf[i].cls # "Function"
                \/ NameAttached(cur, <<curf[i].language>>, "functions",
                                curf[i].key[2])
    /\ pc = "linkfailed" =>
        /\ err.exc \in {"KeyError", "AssertionError"}
        /\ kind = "language" =>
            \E i \in 1..Len(curf) :
                /\ curf[i].language \notin {"sql", "c", "internal"} \cup langs
                /\ ~Has(cur, <<curf[i].language>>)
        /\ kind = "fdw" =>
            \E i \in 1..Len(owned) : ~Has(cur, <<owned[i].key[1]>>)
        /\ kind = "server" =>
            \E i \in 1..Len(owned) : ~Has(cur, Prefix(owned[i].key))

\* A link that aborted on a server whose wrapper is not in the collection,
\* after it had attached an earlier server
C11_Witness ==
    /\ kind = "fdw" /\ pc = "linkfailed" /\ err.exc = "KeyError"
    /\ \E i \in 1..Len(cur) : cur[i].linked # <<>>

-----------------------------------------------------------------------------
(* Ingestion runs: one from_map or _from_catalog call on an empty collection *)

\* The maps over a sorted list of keys:
\* at most MaxObjs entries, in the order of the list, with any of the bodies
BodiesOver(pairs) == {None} \cup {Some(b) : b \in SubSeqsOf(pairs)}
MapsOver(keys, bodies) ==
    UNION {{[j \in 1..Len(ks) |-> [key |-> ks[j], body |-> bs[j]]] :
                bs \in [1..Len(ks) -> bodies]} :
           ks \in {k \in SubSeqsOf(keys) : Len(k) <= MaxObjs}}

\* Keys of a schema's type map as sorted(inschema.keys()) orders them
TypeKeys == <<(<<"domain", "a">>), <<"table", "a">>, <<"type", "a">>,
              <<"type", "b">>>>
TypeBodies == BodiesOver(<<(<<"labels", "l">>), <<"attributes", "x">>,
                           <<"input", "f">>, <<"owner", "o1">>>>)
ProcKeys == <<(<<"aggregate", "a", "integer">>), <<"function", "f", "">>,
              <<"function", "g">>, <<"function", "h", "">>>>
ProcBodies == BodiesOver(<<(<<"source", "s1">>), <<"obj_file", "o.so">>,
                           <<"owner", "o1">>>>)
LanguageKeys == <<(<<"language", "plperl">>), <<"language", "plpgsql">>,
                  <<"schema", "a">>>>
LanguageBodies == BodiesOver(<<(<<"owner", "o1">>), <<"trusted", "True">>,
                               <<"oldname", "b">>>>)
UserMapBodies == BodiesOver(<<(<<"options", "k=1">>), <<"oldname", "v">>>>)
ServerKeys == <<(<<"server", "s">>), <<"server", "t">>>>
ServerBodies ==
    BodiesOver(<<(<<"type", "x">>), <<"oldname", "t">>>>)
    \cup {Some(<<(<<"user mappings", m>>)>>) :
            m \in MapsOver(<<(<<"u">>), <<"v">>>>, UserMapBodies)}
FTableKeys == <<(<<"foreign table", "a">>), <<"foreign table", "b">>,
                <<"table", "c">>>>
FTableBodies == BodiesOver(<<(<<"columns", "x">>), <<"server", "s">>,
                             <<"owner", "o1">>>>)

\* Rows of the type query, ordered by name: its WHERE clause admits the
\* kinds b, c, d and e
TypeKinds == {"d", "e", "c", "b"}
RowFuncs(R) ==
    [r \in Roles |-> IF r \in {"input", "output"} \cup R THEN "f" ELSE "-"]
TypeRows ==
    Colls(SortedNameSeqs({"a", "b", "t"}), TypeKinds \X OptRoleSets,
          LAMBDA n, v : [key |-> <<"public", n>>, kind |-> v[1],
                         funcs |-> RowFuncs(v[2])])

\* Bodies of a function entry: a language, source or obj_file with or
\* without link_symbol, a volatility word, cost and rows, each optional
OneOf(attr, vals) == {<<>>} \cup {<<(<<attr, v>>)>> : v \in vals}
RoundTripBodies ==
    {l \o c \o v \o k \o r :
        l \in OneOf("language", {"sql", "c"}),
        c \in {<<(<<"source", "s1">>)>>, <<(<<"obj_file", "o.so">>)>>,
               <<(<<"obj_file", "o.so">>), <<"link_symbol", "sym">>>>},
        v \in OneOf("volatility", {"immutable", "stable", "volatile"}),
        k \in OneOf("cost", {1, 5, 100}),
        r \in OneOf("rows", {10, 1000})}

\* Enums with their label lists: any order, repeated labels included
Labels == {"r", "g", "b"}
MaxLabels == 3
LabelSeqs == UNION {[1..n -> Labels] : n \in 1..MaxLabels}
EnumKeys == <<(<<"type", "a">>), <<"type", "b">>>>
EnumBodies ==
    {Some(<<(<<"owner", "o1">>)>>)}
    \cup {Some(<<(<<"labels", L>>)>>) : L \in LabelSeqs}
    \cup {Some(<<(<<"labels", L>>), <<"owner", "o1">>>>) : L \in LabelSeqs}

InitIngest ==
    /\ \/ kind = "type" /\ inobjs \in MapsOver(TypeKeys, TypeBodies)
       \/ kind = "enum" /\ inobjs \in MapsOver(EnumKeys, EnumBodies)
       \/ kind = "roundtrip"
          /\ \E body \in RoundTripBodies :
                inobjs = <<[key |-> <<"function", "f", "">>,
                           body |-> Some(body)]>>
       \/ kind = "proc" /\ inobjs \in MapsOver(ProcKeys, ProcBodies)
       \/ kind = "language"
          /\ inobjs \in MapsOver(LanguageKeys, LanguageBodies)
       \/ kind = "server" /\ inobjs \in MapsOver(ServerKeys, ServerBodies)
       \/ kind = "ftable" /\ inobjs \in MapsOver(FTableKeys, FTableBodies)
       \/ kind = "catalog" /\ inobjs \in TypeRows
    /\ version = 90200
    /\ cur = <<>> /\ des = <<>> /\ curf = <<>> /\ desf = <<>>
    /\ cols = <<>> /\ dcols = <<>>
    /\ constrs = <<>> /\ tables = <<>> /\ langs = {} /\ owned = <<>>
    /\ pc = "start"
    /\ stmts = <<>> /\ drops = <<>> /\ fstmts = <<>> /\ fdrops = <<>>
    /\ err = NoErr
    /\ cur0 = cur /\ curf0 = curf

\* r is the [cur, err] a from_map on the empty desired collection produced
FromMapReturned(r) ==
    /\ des' = r.cur
    /\ err' = r.err
    /\ pc' = IF Raised(r) THEN "failed" ELSE "ingested"
    /\ UNCHANGED <<constrs, tables, langs, kind, version, cur, curf,
                   desf, cols, dcols, stmts, drops, fstmts, fdrops, cur0,
                   curf0>>
\* A from_map that leaves the map of the caller as it was
FromMapDone(r) == FromMapReturned(r) /\ UNCHANGED inobjs

TypeFromMap ==
    /\ kind \in {"type", "enum"} /\ pc = "start"
    /\ FromMapDone(TypeDict_from_map("public", inobjs))
    /\ UNCHANGED owned
ProcFromMap ==
    /\ kind \in {"proc", "roundtrip"} /\ pc = "start"
    /\ FromMapDone(ProcDict_from_map("public", inobjs))
    /\ UNCHANGED owned
LanguageFromMap ==
    /\ kind = "language" /\ pc = "start"
    /\ LET r == LanguageDict_from_map(inobjs)
       IN  FromMapReturned(r) /\ inobjs' = r.inmap
    /\ UNCHANGED owned
ServerFromMap ==
    /\ kind = "server" /\ pc = "start"
    /\ LET r == ForeignServerDict_from_map("w", inobjs)
       IN  FromMapReturned(r) /\ inobjs' = r.inmap /\ owned' = r.usermaps
FTableFromMap ==
    /\ kind = "ftable" /\ pc = "start"
    /\ FromMapDone(ForeignTableDict_from_map("public", inobjs))
    /\ UNCHANGED owned

TypeFromCatalog ==
    /\ kind = "catalog" /\ pc = "start"
    /\ LET r == TypeDict_from_catalog(inobjs)
       IN  cur' = r.cur /\ err' = r.err /\ pc' = "ingested"
    /\ UNCHANGED <<aux, kind, version, des, curf, desf, cols, dcols, stmts,
                   drops, fstmts, fdrops, cur0, curf0>>

\* create() of one enum of the ingested collection
EnumCreate ==
    /\ kind = "enum" /\ pc = "ingested"
    /\ \E i \in 1..Len(des) :
          /\ des[i].cls = "Enum"
          /\ stmts' = <<Enum_create(des[i])>>
    /\ pc' = "created"
    /\ UNCHANGED <<aux, kind, version, cur, des, curf, desf, cols, dcols,
                   drops, fstmts, fdrops, err, cur0, curf0>>

\* to_map of the ingested function; the map it returns replaces inobjs,
\* under the external key of the function
FunctionEmit ==
    /\ kind = "roundtrip" /\ pc = "ingested"
    /\ LET r == Function_to_map_ingested(des[1])
       IN  /\ err' = r.err
           /\ inobjs' = IF Raised(r) THEN inobjs
                        ELSE <<[key |-> <<"function", des[1].key[2],
                                          des[1].key[3]>>,
                                body |-> Some(r.map)]>>
           /\ pc' = IF Raised(r) THEN "emitfailed" ELSE "emitted"
    /\ UNCHANGED <<constrs, tables, langs, owned, kind, version, cur, des,
                   curf, desf, cols, dcols, stmts, drops, fstmts, fdrops,
                   cur0, curf0>>

\* from_map of the emitted map, into a second collection
FunctionReIngest ==
    /\ kind = "roundtrip" /\ pc = "emitted"
    /\ LET r == ProcDict_from_map("public", inobjs)
       IN  /\ desf' = r.cur
           /\ err' = r.err
           /\ pc' = IF Raised(r) THEN "refailed" ELSE "reingested"
    /\ UNCHANGED <<aux, kind, version, cur, des, curf, cols, dcols, stmts,
                   drops, fstmts, fdrops, cur0, curf0>>

NextIngest ==
    \/ TypeFromMap \/ ProcFromMap \/ LanguageFromMap \/ ServerFromMap
    \/ FTableFromMap \/ TypeFromCatalog \/ EnumCreate
    \/ FunctionEmit \/ FunctionReIngest

SpecIngest == InitIngest /\ [][NextIngest]_vars

-----------------------------------------------------------------------------
(* Claims about ingestion *)

Ingested(k) == kind = k /\ pc = "ingested"
IngestFailed(k) == kind = k /\ pc = "failed"
EntryName(entry) == entry.key[2]
Discriminated(body) ==
    /\ body # None
    /\ \E d \in {"labels", "attributes", "input"} : InBody(body, d)
\* The variant the discriminating sub-keys of a body select
VariantOf(body) ==
    IF body = None THEN "Domain"
    ELSE IF InBody(body, "labels") THEN "Enum"
    ELSE IF InBody(body, "attributes") THEN "Composite"
    ELSE IF InBody(body, "input") THEN "BaseType"
    ELSE "Domain"

\* C12: after a successful TypeDict.from_map every 'domain' or 'type' entry of
\* the map has exactly one entity under (schema, name), of the variant its
\* sub-keys select: labels an Enum, else attributes a Composite, else input a
\* BaseType, else a Domain.
C12_VariantBySubKey ==
    Ingested("type") =>
        \A i \in 1..Len(inobjs) :
            LET key == <<"public", EntryName(inobjs[i])>>
            IN  /\ Cardinality({j \in 1..Len(des) : des[j].key = key}) = 1
                /\ Get(des, key).cls = VariantOf(inobjs[i].body)

\* C13: a 'type' entry with none of labels, attributes and input, reached
\* without an earlier failure, makes from_map fail, leaves no entity under its
\* name and leaves the entities of the earlier entries as they were.
C13_UndiscriminatedTypeFails ==
    (kind = "type" /\ pc # "start") =>
        \A i \in 1..Len(inobjs) :
            LET before == TypeDict_from_map("public", SubSeq(inobjs, 1, i - 1))
            IN  (/\ inobjs[i].key[1] = "type"
                 /\ ~Discriminated(inobjs[i].body)
                 /\ ~Raised(before))
                => /\ pc = "failed"
                   /\ ~Has(des, <<"public", EntryName(inobjs[i])>>)
                   /\ des = before.cur

ExactlyOne(o) == HasAttr(o, "source") # HasAttr(o, "obj_file")
BodyExactlyOne(body) == InBody(body, "source") # InBody(body, "obj_file")
\* The entries ProcDict.from_map rejects
ProcRejected(entry) ==
    \/ Len(entry.key) < 3
    \/ Empty(entry.body)
    \/ entry.key[1] = "function" /\ ~BodyExactlyOne(entry.body)

\* C14: every Function that ProcDict.from_map accepted has exactly one of
\* source and obj_file; the call fails with ValueError at the first function
\* entry that has both or neither; an aggregate entry with a non-empty body is
\* accepted whatever it has of the two.
C14_ExactlyOneOfSourceObjFile ==
    (kind = "proc" /\ pc # "start") =>
        /\ Ingested("proc") =>
              \A j \in 1..Len(des) :
                  des[j].cls = "Function" => ExactlyOne(des[j])
        /\ (pc = "failed") = (\E i \in 1..Len(inobjs) : ProcRejected(inobjs[i]))
        /\ \A i \in 1..Len(inobjs) :
              (/\ inobjs[i].key[1] = "function" /\ Len(inobjs[i].key) = 3
               /\ ~Empty(inobjs[i].body) /\ ~BodyExactlyOne(inobjs[i].body)
               /\ \A h \in 1..(i - 1) : ~ProcRejected(inobjs[h]))
              => /\ pc = "failed"
                 /\ err = Error("ValueError", EntryName(inobjs[i]))
        /\ Ingested("proc") =>
              \A i \in 1..Len(inobjs) :
                  inobjs[i].key[1] = "aggregate" =>
                      /\ Has(des, <<"public">> \o Tail(inobjs[i].key))
                      /\ Get(des, <<"public">> \o Tail(inobjs[i].key)).cls
                            = "Aggregate"

\* An aggregate with neither source nor obj_file was accepted and the function
\* after it, which has both, was rejected
C14_Witness ==
    /\ IngestFailed("proc")
    /\ err.exc = "ValueError"
    /\ \E i, j \in 1..Len(inobjs) :
          /\ i < j
          /\ inobjs[i].key[1] = "aggregate"
          /\ ~Empty(inobjs[i].body)
          /\ ~InBody(inobjs[i].body, "source")
          /\ ~InBody(inobjs[i].body, "obj_file")
          /\ inobjs[j].key[1] = "function"
          /\ ~Empty(inobjs[j].body)
          /\ InBody(inobjs[j].body, "source")
          /\ InBody(inobjs[j].body, "obj_file")
          /\ Has(des, <<"public">> \o Tail(inobjs[i].key))
          /\ err.names = {EntryName(inobjs[j])}

\* The user mapping entries nested in the server entries of a map
NestedUserMaps(inmap) ==
    UNION {IF ~Empty(inmap[i].body) /\ InBody(inmap[i].body, "user mappings")
           THEN {BodyGet(inmap[i].body, "user mappings")[j] : j \in
                   1..Len(BodyGet(inmap[i].body, "user mappings"))}
           ELSE {} : i \in 1..Len(inmap)}

\* C15: a from_map whose map has an entry with an empty or null body (a
\* domain, type, function, aggregate, foreign table, foreign server or
\* language entry, or a user mapping nested in a server) fails with an error.
C15_EmptyBodyRejected ==
    (kind \in {"type", "proc", "language", "server", "ftable"}
     /\ pc # "start") =>
        /\ (\E i \in 1..Len(inobjs) : Empty(inobjs[i].body)) => pc = "failed"
        /\ (kind = "server"
            /\ \E um \in NestedUserMaps(inobjs) : Empty(um.body))
           => pc = "failed"

\* The class of the entity a row of a kind becomes
KindClass(k) ==
    CASE k = "d" -> "Domain" [] k = "e" -> "Enum"
      [] k = "c" -> "Composite" [] k = "b" -> "BaseType"

\* C16: after a successful TypeDict._from_catalog every fetched row had one of
\* the kinds d, e, c, b and the collection has exactly one entity per row,
\* under the key of the row and of the class of its kind.
C16_OneEntityPerRow ==
    Ingested("catalog") =>
        /\ \A i \in 1..Len(inobjs) : inobjs[i].kind \in {"d", "e", "c", "b"}
        /\ Len(cur) = Len(inobjs)
        /\ \A i \in 1..Len(inobjs) :
              /\ Has(cur, inobjs[i].key)
              /\ Get(cur, inobjs[i].key).cls = KindClass(inobjs[i].kind)

\* Two fetched rows, a composite and a base type, each ingested as one
\* entity
C16_Witness ==
    /\ Ingested("catalog")
    /\ Len(inobjs) = 2 /\ Len(cur) = 2
    /\ inobjs[1].kind = "c" /\ inobjs[2].kind = "b"
    /\ cur[1].cls = "Composite" /\ cur[2].cls = "BaseType"

-----------------------------------------------------------------------------
(* Single entities: diff_map of a pair, create and to_map of a function *)

DiffKinds == {"composite", "function", "fdw", "server", "ftable"}
EntityOwners == {"o1", "o2"}

\* A catalog entity and the specification entity of the same key
CompositeA(owner, attrs) ==
    [DbType("public", "a", [cls |-> "Composite", owner |-> owner,
                            oldname |-> ABSENT, refs |-> NoRefs])
        EXCEPT !.attributes = Some(attrs)]
FunctionF(owner, source, leakproof) ==
    Proc("public", "f", "", [cls |-> "Function", owner |-> owner,
                             oldname |-> ABSENT, source |-> source,
                             leakproof |-> leakproof])
ForeignA(k, owner, options) ==
    Entity(k, "a", [owner |-> owner, oldname |-> ABSENT, options |-> options,
                    ext |-> ABSENT])

InitPair ==
    /\ kind \in DiffKinds
    /\ \E o \in EntityOwners, d \in {NULL} \cup EntityOwners :
         \/ /\ kind = "composite"
            /\ cur = <<CompositeA(o, <<Attribute("x", "integer")>>)>>
            /\ \E t \in {"integer", "text"} :
                  des = <<CompositeA(d, <<Attribute("x", t)>>)>>
         \/ /\ kind = "function"
            /\ \E l \in {ABSENT, "True"} : cur = <<FunctionF(o, "s1", l)>>
            /\ \E src \in {"s1", "s2"}, l \in {ABSENT, "True"} :
                  des = <<FunctionF(d, src, l)>>
         \/ /\ kind \in {"fdw", "server", "ftable"}
            /\ \E opt \in OptionSets(kind) : cur = <<ForeignA(kind, o, opt)>>
            /\ \E opt \in OptionSets(kind) : des = <<ForeignA(kind, d, opt)>>

\* A function as from_map or the catalog built it, with its language and its
\* cost and rows, each missing or a number
Languages == {"c", "internal", "sql", "plpgsql"}
Costs == {None, Some(0), Some(1), Some(5), Some(100)}
RowCounts == {None, Some(0), Some(10), Some(1000)}
InitFunction ==
    /\ kind = "funcdef"
    /\ \E o \in {NULL, "o1"}, l \in Languages, c \in Costs, r \in RowCounts :
          cur = <<[FunctionF(o, "s1", ABSENT) EXCEPT
                      !.language = l, !.cost = c, !.rows = r]>>
    /\ des = <<>>

\* Lists of 'key=value' options with distinct keys, in any order
OptKeys == {"k", "m", "n"}
OptValues == {"1", "2"}
MaxOpts == 2
OptLists ==
    {l \in UNION {[1..n -> OptKeys \X OptValues] : n \in 0..MaxOpts} :
        \A i, j \in 1..Len(l) : i # j => l[i][1] # l[j][1]}
\* An object with or without options, and the new list of options
InitOptions ==
    /\ kind = "options"
    /\ \E old \in {None} \cup {Some(l) : l \in OptLists} :
          cur = <<ForeignA("fdw", "o1", old)>>
    /\ \E new \in OptLists : des = <<ForeignA("fdw", "o1", Some(new))>>

InitEntity ==
    /\ InitPair \/ InitFunction \/ InitOptions
    /\ version = 90200
    /\ curf = <<>> /\ desf = <<>> /\ cols = <<>> /\ dcols = <<>>
    /\ inobjs = <<>> /\ constrs = <<>> /\ tables = <<>> /\ langs = {}
    /\ owned = <<>>
    /\ pc = "start"
    /\ stmts = <<>> /\ drops = <<>> /\ fstmts = <<>> /\ fdrops = <<>>
    /\ err = NoErr
    /\ cur0 = cur /\ curf0 = curf

\* self.diff_map(inobj) of the class of the pair
Entity_diff_map(self, inobj) ==
    IF self.cls = "Composite" THEN Composite_diff_map(self, inobj)
    ELSE IF self.cls = "Function" THEN Function_diff_map(self, inobj)
    ELSE Returned(ForeignObject_diff_map(self, inobj))

EntityDiffMap ==
    /\ kind \in DiffKinds /\ pc = "start"
    /\ LET r == Entity_diff_map(cur[1], des[1])
       IN  /\ stmts' = <<r.out>>
           /\ err' = r.err
           /\ pc' = IF Raised(r) THEN "failed" ELSE "diffed"
    /\ UNCHANGED <<aux, kind, version, cur, des, curf, desf, cols, dcols,
                   drops, fstmts, fdrops, cur0, curf0>>

FunctionCreate ==
    /\ kind = "funcdef" /\ pc = "start"
    /\ LET r == Function_create(cur[1], NULL, FALSE)
       IN  /\ stmts' = IF Raised(r) THEN stmts ELSE <<r.out>>
           /\ err' = r.err
           /\ pc' = IF Raised(r) THEN "createfailed" ELSE "created"
    /\ UNCHANGED <<aux, kind, version, cur, des, curf, desf, cols, dcols,
                   drops, fstmts, fdrops, cur0, curf0>>

\* to_map of the same function; the map it returns is kept in inobjs
FunctionToMap ==
    /\ kind = "funcdef" /\ pc = "created"
    /\ inobjs' = Function_to_map(cur[1])
    /\ pc' = "mapped"
    /\ UNCHANGED <<constrs, tables, langs, owned, kind, version, cur, des,
                   curf, desf, cols, dcols, stmts, drops, fstmts, fdrops, err,
                   cur0, curf0>>

\* self.diff_options(newopts); the clauses it returns are kept in stmts
DiffOptions ==
    /\ kind = "options" /\ pc = "start"
    /\ stmts' = <<diff_options(cur[1], des[1].options[1])>>
    /\ pc' = "optdiffed"
    /\ UNCHANGED <<aux, kind, version, cur, des, curf, desf, cols, dcols,
                   drops, fstmts, fdrops, err, cur0, curf0>>

NextEntity ==
    EntityDiffMap \/ FunctionCreate \/ FunctionToMap \/ DiffOptions

SpecEntity == InitEntity /\ [][NextEntity]_vars

\* The owner statements of the alter diff
OwnerStmts == {i \in 1..Len(stmts[1]) : stmts[1][i].op = "owner"}
OwnerDiffers == des[1].owner # NULL /\ des[1].owner # cur[1].owner

\* C17 as stated: the alter diff of a pair has an owner statement exactly when
\* the desired owner is non-null and differs from the current owner.
C17_OwnerStmtIffDiffers ==
    (kind \in DiffKinds /\ pc = "diffed") => ((OwnerStmts # {}) = OwnerDiffers)

\* C17: the alter diff has a statement that sets the desired owner exactly
\* when the desired owner is non-null and differs from the current owner;
\* every other owner statement is the one the create of a function whose
\* source changed carries, and it names the current owner.
C17_OwnerChangeIffDiffers ==
    (kind \in DiffKinds /\ pc = "diffed") =>
        /\ (\E i \in OwnerStmts : stmts[1][i].val # cur[1].owner)
              = OwnerDiffers
        /\ \A i \in OwnerStmts :
              /\ stmts[1][i].obj = cur[1].key
              /\ stmts[1][i].val \in {cur[1].owner, des[1].owner}
              /\ stmts[1][i].val = cur[1].owner =>
                    /\ kind = "function"
                    /\ cur[1].source # des[1].source
                    /\ i > 1 /\ stmts[1][i - 1].op = "create"
        /\ des[1].owner = NULL =>
              \A i \in OwnerStmts : stmts[1][i].val = cur[1].owner

\* A function whose source changes while the desired owner is null: the diff
\* re-creates it and repeats its current owner
C17_Witness ==
    /\ kind = "function" /\ pc = "diffed"
    /\ des[1].owner = NULL
    /\ cur[1].source # des[1].source
    /\ \E i \in OwnerStmts : stmts[1][i].val = cur[1].owner

\* The function create and to_map were applied to, its CREATE FUNCTION
\* statement and the keys of the map
MappedFunction == cur[1]
CreateStmt ==
    stmts[1][CHOOSE i \in 1..Len(stmts[1]) : stmts[1][i].op = "create"]
HasClause(name) ==
    \E i \in 1..Len(CreateStmt.clauses) : CreateStmt.clauses[i].name = name
MapHas(k) == \E i \in 1..Len(inobjs) : inobjs[i][1] = k
DefaultCost(f) == IF f.language \in {"c", "internal"} THEN 1 ELSE 100
\* create writes a clause exactly for a present, non-zero, non-default value
CostWritten(f) ==
    f.cost # None /\ f.cost[1] # 0 /\ f.cost[1] # DefaultCost(f)
RowsWritten(f) == f.rows # None /\ f.rows[1] # 0 /\ f.rows[1] # 1000
ClausesAsStated ==
    /\ HasClause("COST") = CostWritten(MappedFunction)
    /\ HasClause("ROWS") = RowsWritten(MappedFunction)
    /\ \A i \in 1..Len(CreateStmt.clauses) :
          /\ CreateStmt.clauses[i].name = "COST" =>
                CreateStmt.clauses[i].val = MappedFunction.cost[1]
          /\ CreateStmt.clauses[i].name = "ROWS" =>
                CreateStmt.clauses[i].val = MappedFunction.rows[1]

\* C19 as stated: create writes COST and ROWS exactly for a present, non-zero,
\* non-default value, and to_map leaves cost and rows out of the map exactly
\* when create writes no clause for them.
C19_MapOmitsAsCreate ==
    (kind = "funcdef" /\ pc = "mapped") =>
        /\ ClausesAsStated
        /\ ~MapHas("cost") = ~HasClause("COST")
        /\ ~MapHas("rows") = ~HasClause("ROWS")

\* C19: create writes COST and ROWS exactly for a present, non-zero,
\* non-default value; to_map leaves cost out of the map exactly when cost is
\* missing or equals the default of the language, and rows exactly when rows
\* is missing or 1000: a present 0 stays in the map although create writes no
\* clause for it.
C19_CostRowsClauses ==
    (kind = "funcdef" /\ pc = "mapped") =>
        /\ ClausesAsStated
        /\ ~MapHas("cost") =
              (\/ MappedFunction.cost = None
               \/ MappedFunction.cost[1] = DefaultCost(MappedFunction))
        /\ ~MapHas("rows") =
              (MappedFunction.rows = None \/ MappedFunction.rows[1] = 1000)
        /\ HasClause("COST") => MapHas("cost")
        /\ HasClause("ROWS") => MapHas("rows")
        /\ (MapHas("cost") /\ ~HasClause("COST")) => MappedFunction.cost[1] = 0
        /\ (MapHas("rows") /\ ~HasClause("ROWS")) => MappedFunction.rows[1] = 0

\* A function in language c with cost 0 and rows 10: create writes ROWS and no
\* COST, the map holds both
C19_Witness ==
    /\ kind = "funcdef" /\ pc = "mapped"
    /\ MappedFunction.language = "c"
    /\ MappedFunction.cost = Some(0) /\ MappedFunction.rows = Some(10)
    /\ ~HasClause("COST") /\ HasClause("ROWS")
    /\ MapHas("cost") /\ MapHas("rows")

-----------------------------------------------------------------------------
(* Claims about the statements of create *)

\* The groups TypeDict.diff_map appended for the base types it created
BaseTypeGroups ==
    {i \in 1..Len(stmts) :
        /\ Len(stmts[i]) > 0
        /\ stmts[i][1].cls = "BaseType" /\ stmts[i][1].op = "create"}
CreatesOf(group) == SelectSeq(group, LAMBDA st : st.op = "create")
\* The roles a base type has a support procedure for, in the order of create
RolesOf(t) ==
    <<"input", "output">>
    \o SelectSeq(OPT_FUNCS, LAMBDA r : DepHas(t.dep_funcs[1], r))

\* C18: the statements BaseType.create returns are, in this order, the forward
\* declaration of the type, the create of the input function, of the output
\* function, of each optional support function the type has in the order
\* receive, send, typmod_in, typmod_out, analyze, and the full definition; no
\* create follows the full definition.
C18_BaseTypeCreateOrder ==
    /\ \A i \in BaseTypeGroups :
          LET t == Get(des, stmts[i][1].obj)
              creates == CreatesOf(stmts[i])
              roles == RolesOf(t)
          IN  /\ stmts[i][1] = Stmt("create", t, "shell")
              /\ Len(creates) = Len(roles) + 2
              /\ creates[Len(creates)] = Stmt("create", t, "")
              /\ \A k \in 1..Len(roles) :
                    /\ creates[k + 1].cls = "Function"
                    /\ creates[k + 1].obj = DepGet(t.dep_funcs[1], roles[k])
              /\ \A k \in 2..(Len(creates) - 1) : creates[k].cls = "Function"
    /\ (kind = "type" /\ pc = "tdiffed") =>
          \A n \in 1..Len(des) :
              (des[n].cls = "BaseType" /\ ~Has(cur0, des[n].key))
              => \E i \in BaseTypeGroups : stmts[i][1].obj = des[n].key

\* A base type with all five optional support functions was created
C18_Witness ==
    /\ kind = "type" /\ pc = "tdiffed"
    /\ \E i \in BaseTypeGroups :
          /\ Len(RolesOf(Get(des, stmts[i][1].obj))) = 7
          /\ Len(CreatesOf(stmts[i])) = 9

-----------------------------------------------------------------------------
(* Claims about the table a function returns *)

\* The key of the table a written return type names: a leading SETOF word
\* dropped, an unqualified name taken in the schema of the function
ReturnedKey(f) ==
    LET written == f.returns[1]
        name == IF Len(written) > 1
                   /\ written[1] \in {"SETOF", "setof", "SetOf"}
                THEN Tail(written) ELSE written
    IN  IF Len(name) = 2 THEN name ELSE <<f.key[1], name[1]>>
ReturnsTable(f) == f.returns # None /\ Has(tables, ReturnedKey(f))
\* The function the CREATE FUNCTION statement of the group is for
CreatedFunction ==
    Get(curf, stmts[1][CHOOSE i \in 1..Len(stmts[1]) :
                          /\ stmts[1][i].op = "create"
                          /\ stmts[1][i].cls = "Function"].obj)

\* C20: after SchemaDict.link_refs every function whose return type names a
\* table of the collection has that table as dependent_table and is listed in
\* its dependent_funcs, and no other function has a dependent_table;
\* Function.create of such a function returns the create of the table and
\* then the CREATE FUNCTION statement.
C20_DependentTableFirst ==
    (kind = "schema" /\ pc \in {"linked", "created"}) =>
        /\ \A n \in 1..Len(curf) :
              IF ReturnsTable(curf[n])
              THEN /\ curf[n].dependent_table = Some(ReturnedKey(curf[n]))
                   /\ LET t == Get(tables, ReturnedKey(curf[n]))
                      IN  /\ t.dependent_funcs # None
                          /\ \E j \in 1..Len(t.dependent_funcs[1]) :
                                t.dependent_funcs[1][j] = curf[n].key
              ELSE curf[n].dependent_table = None
        /\ pc = "created" =>
              IF ReturnsTable(CreatedFunction)
              THEN /\ Len(stmts[1]) >= 2
                   /\ stmts[1][1].op = "create"
                   /\ stmts[1][1].cls = "Table"
                   /\ stmts[1][1].obj = ReturnedKey(CreatedFunction)
                   /\ stmts[1][2].op = "create"
                   /\ stmts[1][2].cls = "Function"
                   /\ stmts[1][2].obj = CreatedFunction.key
              ELSE /\ stmts[1][1].cls = "Function"
                   /\ stmts[1][1].op = "create"

\* A function of schema s1 that returns SETOF a, resolved to the table s1.a,
\* was created after that table
C20_Witness ==
    /\ kind = "schema" /\ pc = "created"
    /\ CreatedFunction.key[1] = "s1"
    /\ CreatedFunction.returns \in {Some(<<"SETOF", "a">>)}
    /\ CreatedFunction.dependent_table = Some(<<"s1", "a">>)
    /\ stmts[1][1].cls = "Table" /\ stmts[1][1].obj = <<"s1", "a">>
    /\ stmts[1][2].cls = "Function"

-----------------------------------------------------------------------------
(* Claims about enums *)

\* The label list the map gives for the enum (schema public) of a key
WrittenLabels(key) ==
    BodyGet(inobjs[CHOOSE i \in 1..Len(inobjs) :
                      /\ inobjs[i].key[2] = key[2]
                      /\ InBody(inobjs[i].body, "labels")].body, "labels")

\* C21: an enum ingested with the label list L holds L unchanged, and
\* Enum.create writes one quoted label per element of L, in the order of L.
C21_LabelOrderPreserved ==
    (kind = "enum" /\ pc \in {"ingested", "created"}) =>
        /\ \A i \in 1..Len(inobjs) :
              InBody(inobjs[i].body, "labels") =>
                  /\ Has(des, <<"public", inobjs[i].key[2]>>)
                  /\ Get(des, <<"public", inobjs[i].key[2]>>).cls = "Enum"
                  /\ GetAttr(Get(des, <<"public", inobjs[i].key[2]>>),
                             "labels") = BodyGet(inobjs[i].body, "labels")
        /\ pc = "created" =>
              LET L == WrittenLabels(stmts[1][1].obj)
              IN  /\ stmts[1][1].op = "create"
                  /\ Len(stmts[1][1].clauses) = Len(L)
                  /\ \A k \in 1..Len(L) :
                        stmts[1][1].clauses[k] = "'" \o L[k] \o "'"

\* An enum whose labels are neither sorted nor distinct was created
C21_Witness ==
    /\ kind = "enum" /\ pc = "created"
    /\ WrittenLabels(stmts[1][1].obj) = <<"r", "g", "r">>
    /\ stmts[1][1].clauses = <<"'r'", "'g'", "'r'">>

-----------------------------------------------------------------------------
(* Claims about the round trip of a function *)

RoundTripAttrs == {"language", "source", "obj_file", "link_symbol",
                   "volatility", "cost", "rows"}
SameAttrs(f, g) ==
    \A a \in RoundTripAttrs :
        /\ HasAttr(f, a) = HasAttr(g, a)
        /\ HasAttr(f, a) => GetAttr(f, a) = GetAttr(g, a)

\* C22: a function that from_map ingested is emitted by to_map, the emitted
\* map is ingested again, and the second function has the attributes of the
\* first.
C22_FunctionRoundTrip ==
    kind = "roundtrip" =>
        /\ pc \notin {"emitfailed", "refailed"}
        /\ pc = "reingested" =>
              /\ Len(desf) = 1
              /\ desf[1].key = des[1].key
              /\ SameAttrs(des[1], desf[1])

-----------------------------------------------------------------------------
(* Claims about the ownership maps that link_refs builds *)

\* The keys of the objects the dictionary attr of an entity holds
LinkedKeys(e, attr) ==
    {e.linked[i][3] : i \in {j \in 1..Len(e.linked) : e.linked[j][1] = attr}}

\* C23: after LanguageDict.link_refs the functions of each language are the
\* Function entities of the procedure collection written in that language:
\* every overload and every schema's function of a name, no aggregate and no
\* function of another language.
C23_LanguageFunctions ==
    (kind = "language" /\ pc = "linked") =>
        \A n \in 1..Len(cur) :
            LinkedKeys(cur[n], "functions") =
                {curf[i].key : i \in {j \in 1..Len(curf) :
                    /\ curf[j].cls = "Function"
                    /\ curf[j].language = cur[n].name}}

\* The attribute a parent keeps its children in, and the items it holds
ChildAttr == IF kind = "fdw" THEN "servers" ELSE "usermaps"
ChildItems(e) ==
    SelectSeq(e.linked, LAMBDA item : item[1] = ChildAttr)

\* C24: after the link_refs of wrappers (of servers), every server (every
\* user mapping) is in the map of the parent its key names, under its own
\* name, and in the map of no other parent; the call fails with an error
\* exactly when the parent of some server (user mapping) is not in the
\* collection.
C24_StrictOwnership ==
    (kind \in {"fdw", "server"} /\ pc # "start") =>
        /\ (pc = "linkfailed") =
              (\E i \in 1..Len(owned) : ~Has(cur, Prefix(owned[i].key)))
        /\ pc = "linkfailed" => err.exc \in {"KeyError", "AssertionError"}
        /\ pc = "linked" =>
              \A n \in 1..Len(cur) :
                  LET children == {j \in 1..Len(owned) :
                                      Prefix(owned[j].key) = cur[n].key}
                  IN  /\ {<<item[2], item[3]>> :
                            item \in {ChildItems(cur[n])[k] :
                                        k \in 1..Len(ChildItems(cur[n]))}}
                         = {<<owned[j].name, owned[j].key>> : j \in children}
                      /\ Len(ChildItems(cur[n])) = Cardinality(children)

\* Two user mappings of different servers were linked, each to its server
C24_Witness ==
    /\ kind = "server" /\ pc = "linked"
    /\ Len(owned) = 2 /\ Len(cur) = 2
    /\ owned[1].key[2] # owned[2].key[2]
    /\ \A n \in 1..2 : Len(ChildItems(cur[n])) = 1

\* The lookup map of a schema that holds an object of class cls
MapOf(cls) ==
    CASE cls = "Domain" -> "domains"
      [] cls \in {"Enum", "Composite", "BaseType"} -> "types"
      [] cls = "Table" -> "tables"
      [] cls = "Sequence" -> "sequences"
      [] cls = "MaterializedView" -> "matviews"
      [] cls = "View" -> "views"
      [] cls \in {"Function", "Aggregate"} -> "functions"
      [] cls = "ForeignTable" -> "ftables"
\* The <<map, local key, key>> of every object of the database whose key
\* starts with the schema name sch
Expected(sch) ==
    LET In(c) == {<<MapOf(c[i].cls), Tail(c[i].key), c[i].key>> :
                    i \in {j \in 1..Len(c) : c[j].key[1] = sch}}
    IN  In(owned) \cup In(tables) \cup In(curf)

\* C25: after SchemaDict.link_refs, every type, table-like object, procedure
\* and foreign table is held by the schema its key starts with, in the one
\* lookup map of its class and under its local key, and by nothing else: no
\* schema holds an object in a second map or an object of another schema.
C25_SchemaLookupMaps ==
    (kind = "schema" /\ pc = "linked") =>
        \A n \in 1..Len(cur) :
            /\ {cur[n].linked[k] : k \in 1..Len(cur[n].linked)}
                  = Expected(cur[n].name)
            /\ Len(cur[n].linked) = Cardinality(Expected(cur[n].name))

\* Two schemas were linked: one got a composite under 'types', a sequence and
\* a materialized view, the other a domain, a view and a foreign table, and
\* a function went to one of them
C25_Witness ==
    /\ kind = "schema" /\ pc = "linked"
    /\ Len(cur) = 2 /\ Len(owned) = 3 /\ Len(tables) = 3 /\ Len(curf) >= 1
    /\ \A n \in 1..2 : Len(cur[n].linked) >= 3

\* The old and the new options as sets of <<key, value>>, and the clauses
\* diff_options returned
OldOptions ==
    IF cur[1].options = None THEN {}
    ELSE {cur[1].options[1][i] : i \in 1..Len(cur[1].options[1])}
NewOptions ==
    {des[1].options[1][i] : i \in 1..Len(des[1].options[1])}
OptClauses == stmts[1]
KeysOf(opts) == {o[1] : o \in opts}
ClausesOf(act) ==
    {<<OptClauses[i].key, OptClauses[i].val>> :
        i \in {j \in 1..Len(OptClauses) : OptClauses[j].act = act}}
\* What ALTER ... OPTIONS (clauses) makes of a set of options: a clause
\* without keyword adds, SET replaces the value, DROP removes
RECURSIVE ApplyClauses(_, _)
ApplyClauses(opts, cl) ==
    IF cl = <<>> THEN opts
    ELSE LET c == Head(cl)
             rest == {o \in opts : o[1] # c.key}
         IN  ApplyClauses(IF c.act = "DROP" THEN rest
                          ELSE rest \cup {<<c.key, c.val>>},
                          Tail(cl))

\* C26: for lists of options with distinct keys, diff_options returns an add
\* clause exactly for each key of the new list that the old lacks, a SET
\* clause exactly for each key of both whose value differs, a DROP clause
\* exactly for each key of the old list that the new lacks, one clause a
\* key; applying the clauses to the old options gives the new; and it
\* returns no clause exactly when old and new are the same mapping.
C26_OptionDiff ==
    (kind = "options" /\ pc = "optdiffed") =>
        /\ ClausesOf("") =
              {o \in NewOptions : o[1] \notin KeysOf(OldOptions)}
        /\ ClausesOf("SET") =
              {o \in NewOptions : /\ o[1] \in KeysOf(OldOptions)
                                  /\ o \notin OldOptions}
        /\ ClausesOf("DROP") =
              {<<k, "">> : k \in KeysOf(OldOptions) \ KeysOf(NewOptions)}
        /\ \A i \in 1..Len(OptClauses) :
              /\ OptClauses[i].act \in {"", "SET", "DROP"}
              /\ \A j \in 1..Len(OptClauses) :
                    OptClauses[i].key = OptClauses[j].key => i = j
        /\ ApplyClauses(OldOptions, OptClauses) = NewOptions
        /\ (OptClauses = <<>>) = (OldOptions = NewOptions)

\* One call added an option, changed the value of another and dropped a
\* third
C26_Witness ==
    /\ kind = "options" /\ pc = "optdiffed"
    /\ ClausesOf("") # {} /\ ClausesOf("SET") # {} /\ ClausesOf("DROP") # {}

BuiltIn == {"public", "pg_catalog"}
\* The statements of diff_map and of _drop of the schemas leave the built-in
\* schemas alone: no drop of 'public' or 'pg_catalog', no create of
\* 'pg_catalog'
BuiltInUntouched ==
    /\ \A i \in 1..Len(Flatten(stmts) \o Flatten(drops)) :
          LET st == (Flatten(stmts) \o Flatten(drops))[i]
          IN  /\ st.op = "drop" => st.obj[1] \notin BuiltIn
              /\ st.op = "create" => st.obj[1] # "pg_catalog"

\* C27 (as written): SchemaDict.diff_map followed by SchemaDict._drop emits
\* no drop for 'public' or 'pg_catalog', no create for 'pg_catalog', and
\* every other schema of current that is absent from desired is marked and
\* dropped.
C27_BuiltInKeptOthersDropped ==
    (kind = "schema" /\ pc = "dropped") =>
        /\ BuiltInUntouched
        /\ \A i \in 1..Len(cur0) :
              (cur0[i].name \notin BuiltIn /\ ~Has(des, cur0[i].key)) =>
                  /\ Has(cur, cur0[i].key)
                  /\ Get(cur, cur0[i].key).dropped # ABSENT
                  /\ HasStmt(drops, "drop", cur0[i])

\* C27 (amended): no drop for 'public' or 'pg_catalog', no create for
\* 'pg_catalog'; every other schema of current that is absent from desired
\* is marked and dropped unless a desired schema names it as its oldname, in
\* which case it is renamed, leaves the collection and is not dropped.
C27_BuiltInKept ==
    (kind = "schema" /\ pc = "dropped") =>
        /\ BuiltInUntouched
        /\ \A i \in 1..Len(cur0) :
              (cur0[i].name \notin BuiltIn /\ ~Has(des, cur0[i].key)) =>
                  IF Has(cur, cur0[i].key)
                  THEN /\ Get(cur, cur0[i].key).dropped # ABSENT
                       /\ HasStmt(drops, "drop", cur0[i])
                  ELSE /\ ~HasStmt(drops, "drop", cur0[i])
                       /\ \E j \in 1..Len(des) :
                             /\ des[j].oldname = cur0[i].name
                             /\ HasStmt(stmts, "rename", cur0[i])

\* Current holds 'public' and a schema a, desired only 'pg_catalog': a was
\* dropped, 'public' stayed and 'pg_catalog' was not created
C27_Witness ==
    /\ kind = "schema" /\ pc = "dropped"
    /\ \E i, j \in 1..Len(cur0) :
          /\ cur0[i].name = "public" /\ cur0[j].name \notin BuiltIn
          /\ HasStmt(drops, "drop", cur0[j])
    /\ Len(des) = 1 /\ des[1].name = "pg_catalog" /\ des[1].oldname = ABSENT
    /\ ~Has(cur0, des[1].key)

\* The number of drop statements ProcDict._drop emitted for a procedure
DropCount(e) ==
    Cardinality({i \in 1..Len(Flatten(fdrops)) :
                    IsStmt(Flatten(fdrops)[i], "drop", e)})

C29_AbortLeavesCurrent ==
    (kind # "type" /\ pc = "failed") => (cur = cur0 /\ curf = curf0)

\* The procedure key a role of base type t resolves to when its reference is
\* resolved on its own: an unqualified name in the schema of t
Declared(t, role) == role \in {"input", "output"} \/ t.refs[role] # None
OwnKey(t, role) ==
    LET sf == split_schema_obj(t.refs[role][1], t.key[1])
    IN  <<sf[1], sf[2], RoleArgs(role, t, sf[1], sf[2], curf)>>

\* C30 (as written): TypeDict.link_refs resolves each support-procedure
\* reference of a base type on its own: every declared role is bound to the
\* procedure its reference names, an unqualified reference in the schema of
\* the type, whatever schema the other references are written with; the
\* call fails only when one of these procedures does not exist.
C30_IndependentResolution ==
    (/\ kind = "type" /\ constrs = <<>>
     /\ Len(cur) = 1 /\ cur[1].cls = "BaseType") =>
        /\ pc = "linkdb" =>
              \A role \in Roles : Declared(cur[1], role) =>
                  /\ DepHas(cur[1].dep_funcs[1], role)
                  /\ DepGet(cur[1].dep_funcs[1], role) = OwnKey(cur[1], role)
        /\ pc = "linkfailed" =>
              \E role \in Roles :
                  /\ Declared(cur[1], role)
                  /\ ~Has(curf, OwnKey(cur[1], role))

====
